---- MODULE Spec2Model ----
(***************************************************************************)
(* State-machine model of the per-tenant broadcast scheduler               *)
(* (src/app/auto_sender.py, class AutoSender) together with the parts of   *)
(* the campaign store (src/app/storage.py, class Storage) it calls.        *)
(*                                                                         *)
(* Concurrency model: asyncio, one event loop.  A coroutine runs without   *)
(* interruption from one suspension point to the next, so every action     *)
(* below is the code between two awaits that can suspend.  The registry    *)
(* lock (self._lock) is never held across an await, hence it is never      *)
(* contended and every `async with self._lock` block is part of the        *)
(* action that contains it.  Calls into the Store and the Sender are       *)
(* suspension points; each of them may also raise.                         *)
(*                                                                         *)
(* The front-end handlers of src/bot.py that decide payments and start a   *)
(* campaign, and the dialogs of the user session                           *)
(* (src/app/user_dialogs.py, class UserDialogResponder), are modelled next *)
(* to it.  The methods of Storage these handlers call are those of         *)
(* src/app/storage.py, which contain no await: such a call returns or      *)
(* raises without another coroutine running in between, and a handler is   *)
(* cut into actions only at its awaits of the network.                     *)
(***************************************************************************)
EXTENDS Integers, Sequences, FiniteSets, TLC

\* ---------------------------------------------------------------- bounds
MaxTasks    == 3  \* loop tasks ever created (asyncio.create_task calls)
MaxOps      == 3  \* scheduler operations ever invoked by callers
MaxEnv      == 1  \* events of the outside world: a write of the front-end,
                  \* a payment ageing, a chat changing, a Store call raising
MaxTimeouts == 1  \* interval timers that fire
CycleOps      == 2  \* the same budgets where the cycle is studied against
CycleTimeouts == 2  \* a changing world rather than against many callers
BootOps      == 3  \* the same budgets for start-up and shutdown
BootTimeouts == 1
PaymentValidDays == 1  \* days an approved payment stays valid (scaled down)
MaxPayments   == 3  \* rows of the payments table where the ledger is studied
LedgerEnv     == 6  \* payment handlers and days where the ledger is studied
ReconnectEnv  == 2  \* changes of the connection while one loop sends
StartOps      == 2  \* presses of the start button
DialogEnv     == 5  \* messages and stops where the dialogs are studied

Tenants  == {1, 2}
Callers  == {"h1", "h2"}
Chats    == {10, 20, 30}
TaskIds  == 1..MaxTasks
Messages == {"", "Hello"}
Intervals == {0, 1}
Admins   == {"admin1", "admin2"}
Senders  == Tenants

\* UserSender._retry_attempts
RetryAttempts == 3

\* UserDialogResponder._handle_new_message: the limits of a card number
\* and of a name
MinCardDigits == 12
MaxCardDigits == 19
MinNameLen == 3

VARIABLES
    auto,            \* Store: auto_config + auto_targets, per tenant
    stats,           \* Store: auto_stats, per tenant
    payments,        \* Store: table payments, in the order of insertion
    now,             \* datetime.utcnow(), in days
    user_sender,     \* AutoSender._user_sender is not None
    personal_chats,  \* AutoSender._personal_chats (ordered ids)
    accessible,      \* what UserSender.list_accessible_chats would return
    world,           \* what a delivery to each chat does at present
    tasks,           \* AutoSender._tasks      : dict user_id -> task
    stop_events,     \* AutoSender._stop_events: dict user_id -> event
    event_set,       \* asyncio.Event flag of the event made with task k
    run,             \* frame of coroutine _run_user, per task
    nextTask,        \* number of the next task to be created
    caller,          \* frame of each front-end coroutine using the scheduler
    left,            \* remaining budget of each bounded kind of step
    delivery_ready,  \* Store: known_chats with delivery_available = 1
    deciding,        \* frame of cb_payment_decision, per admin
    handler_registered, \* UserDialogResponder._handler_registered
    states,          \* UserDialogResponder._states: dict sender_id -> state
    finalizing,      \* frames of _finalize_payment awaiting event.get_sender()
    heard            \* the messages handled so far, per sender, in order

vars == <<auto, stats, payments, now, user_sender, personal_chats, accessible, world,
          tasks, stop_events, event_set, run, nextTask, caller, left,
          delivery_ready, deciding, handler_registered, states, finalizing, heard>>

storeVars == <<auto, stats, payments, now>>
chatVars  == <<user_sender, personal_chats, accessible, world>>
regVars   == <<tasks, stop_events, event_set, run, nextTask>>
dialogVars == <<handler_registered, states, finalizing, heard>>
frontVars == <<delivery_ready, deciding, dialogVars>>

\* ------------------------------------------------------- small utilities
Range(s) == {s[i] : i \in DOMAIN s}

\* dict.pop(key, None)
Pop(d, key) == [x \in (DOMAIN d) \ {key} |-> d[x]]

\* d[key] = val
Put(d, key, val) == [x \in (DOMAIN d) \cup {key} |-> IF x = key THEN val ELSE d[x]]

\* [x for x in s if x in keep]
RECURSIVE Filter(_, _)
Filter(s, keep) ==
    IF s = <<>> THEN <<>>
    ELSE IF Head(s) \in keep THEN <<Head(s)>> \o Filter(Tail(s), keep)
         ELSE Filter(Tail(s), keep)

Spend(kind) == [left EXCEPT ![kind] = @ - 1]

\* ------------------------------------------------------------- the Store
\* Storage.set_auto_enabled
SetAutoEnabled(a, user_id, enabled) == [a EXCEPT ![user_id].is_enabled = enabled]

\* mutant: ensure_constraints does not look at the interval
EnsureConstraintsLax(a, user_id, require_targets) ==
    LET cur == a[user_id]
        targets_valid == (cur.target_chat_ids # <<>>) \/ ~require_targets
    IN  IF cur.message = "" \/ ~targets_valid
        THEN [a EXCEPT ![user_id].is_enabled = FALSE]
        ELSE a

\* Storage.ensure_constraints, called with require_targets by refresh_user
EnsureConstraints(a, user_id, require_targets) ==
    LET cur == a[user_id]
        targets_valid == (cur.target_chat_ids # <<>>) \/ ~require_targets
    IN  IF cur.message = "" \/ ~targets_valid \/ cur.interval_minutes <= 0
        THEN [a EXCEPT ![user_id].is_enabled = FALSE]
        ELSE a

\* a row of table payments: resolved_at is <<>> for NULL and <<d>> for a
\* timestamp on day d
Statuses == {"pending", "approved", "declined"}

PaymentRow(user_id, status, resolved_at) ==
    [user_id |-> user_id, status |-> status, resolved_at |-> resolved_at,
     resolved_by_admin_id |-> <<>>, card_number |-> <<>>, card_name |-> <<>>]

\* WHERE status = 'approved' [AND user_id = ?] AND resolved_at IS NOT NULL
RECURSIVE SelectApproved(_, _)
SelectApproved(ledger, users) ==
    IF ledger = <<>> THEN <<>>
    ELSE LET row == Head(ledger) IN
         IF row.status = "approved" /\ row.user_id \in users /\ row.resolved_at # <<>>
         THEN <<row>> \o SelectApproved(Tail(ledger), users)
         ELSE SelectApproved(Tail(ledger), users)

\* ORDER BY resolved_at DESC LIMIT 1, then fetchone(): <<>> when no row
RECURSIVE LatestResolved(_)
LatestResolved(rows) ==
    IF rows = <<>> THEN <<>>
    ELSE LET rest == LatestResolved(Tail(rows)) IN
         IF rest = <<>> \/ Head(rows).resolved_at[1] >= rest[1].resolved_at[1]
         THEN <<Head(rows)>>
         ELSE rest

\* datetime.utcnow() - timedelta(days=max(0, within_days))
Threshold(clock, within_days) ==
    clock - (IF within_days > 0 THEN within_days ELSE 0)

\* mutant: the query of has_recent_payment_for_user does not filter on
\* the status
RecentForUserAnyStatus(ledger, clock, user_id, within_days) ==
    LET mine == SelectSeq(ledger, LAMBDA row :
                    row.user_id = user_id /\ row.resolved_at # <<>>)
        cur == LatestResolved(mine)
    IN  cur # <<>> /\ cur[1].resolved_at[1] >= Threshold(clock, within_days)

\* Storage.has_recent_payment_for_user on the table ledger at time clock
RecentForUser(ledger, clock, user_id, within_days) ==
    LET cur == LatestResolved(SelectApproved(ledger, {user_id}))
    IN  cur # <<>> /\ cur[1].resolved_at[1] >= Threshold(clock, within_days)

\* Storage.has_recent_payment on the table ledger at time clock
RecentForAnyone(ledger, clock, within_days) ==
    LET cur == LatestResolved(SelectApproved(ledger, Tenants))
    IN  cur # <<>> /\ cur[1].resolved_at[1] >= Threshold(clock, within_days)

\* the users for whom has_recent_payment_for_user(within_days =
\* _payment_valid_days) returns True at present
paid == {u \in Tenants : RecentForUser(payments, now, u, PaymentValidDays)}

\* Storage.has_recent_payment_for_user, given the users p it holds for
HasRecentPaymentForUser(p, user_id) == user_id \in p

\* Storage.has_recent_payment, given the users p whose own check holds:
\* the latest approved row of the table is the latest approved row of
\* some user
HasRecentPayment(p) == p # {}

\* the separator of the error summary, "\n", as an item of the summary
Newline == <<"\n", 0>>

\* "\n".join(items)
RECURSIVE Join(_)
Join(items) ==
    IF Len(items) <= 1 THEN items
    ELSE <<Head(items), Newline>> \o Join(Tail(items))

\* Storage.update_stats: "\n".join(errors) if errors else None
JoinErrors(errors) == IF errors = <<>> THEN <<>> ELSE Join(errors)

\* mutant: update_stats stores the count of the cycle as the total
UpdateStatsOverwrite(s, user_id, sent, errors) ==
    [s EXCEPT ![user_id] = [sent_total   |-> sent,
                            last_sent_at |-> "utcnow",
                            last_error   |-> JoinErrors(errors)]]


UpdateStats(s, user_id, sent, errors) ==
    [s EXCEPT ![user_id] = [sent_total   |-> @.sent_total + sent,
                            last_sent_at |-> "utcnow",
                            last_error   |-> JoinErrors(errors)]]

\* ------------------------------------------------------------ AutoSender
\* AutoSender._payments_ready: user_payment and global_payment
PaymentsReady(user_payment, global_payment) == user_payment /\ global_payment

\* AutoSender._resolve_targets, given the chats get_personal_chats returned
ResolveTargets(a, personal) ==
    IF user_sender
    THEN IF a.target_chat_ids # <<>>
         THEN Filter(a.target_chat_ids, Range(personal))
         ELSE personal
    ELSE a.target_chat_ids

\* task.done(), for a task whose frame is f
DoneFrame(f) == f.pc \in {"done", "failed"}

Done(k) == DoneFrame(run[k])

\* a loop task that was created and has not finished
LiveFrame(f) == f.pc # "none" /\ ~DoneFrame(f)

LiveTask(k) == LiveFrame(run[k])

\* the live loops of tenant t when the frames are r
LiveLoopsIn(r, t) == {k \in TaskIds : LiveFrame(r[k]) /\ r[k].user_id = t}

LiveLoops(t) == LiveLoopsIn(run, t)

NoAuto == [is_enabled |-> FALSE, message |-> "", interval_minutes |-> 0,
           target_chat_ids |-> <<>>]

NoFrame == [user_id |-> 0, pc |-> "none", auto |-> NoAuto,
            targets |-> <<>>, idx |-> 0, success |-> 0, errors |-> <<>>,
            tries |-> 0, log |-> <<>>]

NewFrame(user_id) == [NoFrame EXCEPT !.user_id = user_id, !.pc = "get_auto"]

\* in the frame, tries counts the calls of the client's send_message made
\* for the present destination, and log is the history of the fan-out of
\* the present cycle: each chat attempted, what its delivery did and how
\* many calls of the client's send_message it took
\* the frame of a finished task: only its owner and how it ended
EndFrame(f, how) == [NoFrame EXCEPT !.user_id = f.user_id, !.pc = how]

\* a frame at the top of the while loop (line 84): the locals of the
\* previous cycle are dead
TopFrame(f) == NewFrame(f.user_id)

\* ---------------------------------------------------------------- Init
\* outer, todo and on belong to refresh_all and stop_all: which of the two
\* is running, the user ids its for loop has still to visit, and the
\* tenants whose campaign was enabled when it was called
IdleCaller == [op |-> "idle", user_id |-> 0, pc |-> "idle", task |-> {},
               then |-> "return", made |-> {}, seen |-> 0, unfit |-> FALSE,
               outer |-> "none", todo |-> <<>>, on |-> {}]

Campaigns == [is_enabled : BOOLEAN, message : Messages,
              interval_minutes : Intervals,
              target_chat_ids : {<<>>, <<10, 20, 30>>}]

NoStats == [sent_total |-> 0, last_sent_at |-> "None", last_error |-> <<>>]

\* state after AutoSender.__init__ (lines 21-29) over a store that was
\* last written by a previous run of the program
InitScheduler ==
    /\ tasks = <<>>
    /\ stop_events = <<>>
    /\ event_set = [k \in TaskIds |-> FALSE]
    /\ run = [k \in TaskIds |-> NoFrame]
    /\ nextTask = 1
    /\ personal_chats = <<>>
    /\ caller = [c \in Callers |-> IdleCaller]

\* the front-end at rest: the delivery account is in every known chat, no
\* admin is deciding a payment, UserDialogResponder.__init__ (lines 31-45)
InitFront ==
    /\ delivery_ready = Chats
    /\ deciding = [admin_id \in Admins |-> <<>>]
    /\ handler_registered = FALSE
    /\ states = <<>>
    /\ finalizing = <<>>
    /\ heard = [sender_id \in Senders |-> <<>>]

Runnable == [is_enabled |-> TRUE, message |-> "Hello", interval_minutes |-> 1,
             target_chat_ids |-> <<10, 20, 30>>]

Budget(ops, env, timeouts) == [ops |-> ops, env |-> env, timeouts |-> timeouts]

\* the payment of tenant 1 was approved on day 0, that of tenant 2 on
\* day 1
PaidLedger == <<PaymentRow(1, "approved", <<0>>), PaymentRow(2, "approved", <<1>>)>>

\* tenant 1 has a runnable campaign, tenant 2 a complete one that is
\* switched off; both have paid; every chat is accessible and accepts
\* deliveries
InitWorld ==
    /\ auto = [t \in Tenants |-> [Runnable EXCEPT !.is_enabled = (t = 1)]]
    /\ stats = [t \in Tenants |-> NoStats]
    /\ payments = PaidLedger
    /\ now = PaymentValidDays
    /\ accessible = <<10, 20, 30>>
    /\ world = [chat_id \in Chats |-> "sent"]

\* several handlers use the scheduler at once; delivery through the user
\* session
Init ==
    /\ InitScheduler
    /\ InitFront
    /\ InitWorld
    /\ user_sender = TRUE
    /\ left = Budget(MaxOps, MaxEnv, MaxTimeouts)

\* the cycle against a changing world, in both delivery modes
InitCycle ==
    /\ InitScheduler
    /\ InitFront
    /\ InitWorld
    /\ user_sender \in BOOLEAN
    /\ left = Budget(CycleOps, MaxEnv, CycleTimeouts)

\* the campaigns a previous run can have left in the Store: runnable,
\* switched off, without message, without targets
BootCampaigns ==
    {Runnable,
     [Runnable EXCEPT !.is_enabled = FALSE],
     [Runnable EXCEPT !.message = ""],
     [Runnable EXCEPT !.target_chat_ids = <<>>]}

\* the state in which the process starts: any such campaigns, payments
\* valid or expired, either delivery mode, the delivery account in all
\* chats or in none
InitBoot ==
    /\ InitScheduler
    /\ InitFront
    /\ auto \in [Tenants -> BootCampaigns]
    /\ stats = [t \in Tenants |-> NoStats]
    /\ payments = PaidLedger
    /\ now \in {PaymentValidDays, PaymentValidDays + 1}
    /\ user_sender \in BOOLEAN
    /\ accessible \in {<<>>, <<10, 20, 30>>}
    /\ ~user_sender => accessible # <<>>
    /\ world = [chat_id \in Chats |-> "sent"]
    /\ left = Budget(BootOps, 0, BootTimeouts)

\* ---------------------------------------------------- the loop, _run_user
\* mutant: the finally block leaves the handle in _tasks
FinallyKeepsHandle(k, how) ==
    /\ tasks' = tasks
    /\ stop_events' = stop_events
    /\ run' = [run EXCEPT ![k] = EndFrame(@, how)]

\* mutant: the finally block leaves the stop event in _stop_events
FinallyKeepsEvent(k, how) ==
    /\ tasks' = Pop(tasks, run[k].user_id)
    /\ stop_events' = stop_events
    /\ run' = [run EXCEPT ![k] = EndFrame(@, how)]

\* mutant: the finally block empties both dicts
FinallyDropsAll(k, how) ==
    /\ tasks' = <<>>
    /\ stop_events' = <<>>
    /\ run' = [run EXCEPT ![k] = EndFrame(@, how)]

\* finally block, lines 120-124, followed by the end of the task
Finally(k, how) ==
    LET user_id == run[k].user_id IN
    /\ tasks' = Pop(tasks, user_id)
    /\ stop_events' = IF user_id \in DOMAIN stop_events /\ stop_events[user_id] = k
                       THEN Pop(stop_events, user_id)
                       ELSE stop_events
    /\ run' = [run EXCEPT ![k] = EndFrame(@, how)]

\* mutant: an empty message does not stop the cycle
AfterResolveLax(k, targets) ==
    LET a == run[k].auto IN
    IF targets = <<>> \/ a.interval_minutes <= 0
    THEN run' = [run EXCEPT ![k].pc = "disable", ![k].targets = targets]
    ELSE run' = [run EXCEPT ![k].pc = "send", ![k].targets = targets,
                            ![k].idx = 1, ![k].success = 0,
                            ![k].errors = <<>>, ![k].tries = 0,
                            ![k].log = <<>>]

\* line 94 and what follows it, once targets are resolved
AfterResolve(k, targets) ==
    LET a == run[k].auto IN
    IF a.message = "" \/ targets = <<>> \/ a.interval_minutes <= 0
    THEN run' = [run EXCEPT ![k].pc = "disable", ![k].targets = targets]
    ELSE run' = [run EXCEPT ![k].pc = "send", ![k].targets = targets,
                            ![k].idx = 1, ![k].success = 0,
                            ![k].errors = <<>>, ![k].tries = 0,
                            ![k].log = <<>>]

\* mutant: the loop does not look at is_enabled
RunGetAutoBlind(k) ==
    /\ run[k].pc = "get_auto"
    /\ run' = [run EXCEPT ![k].pc = "payments", ![k].auto = auto[run[k].user_id]]
    /\ UNCHANGED <<storeVars, chatVars, tasks, stop_events, event_set, nextTask, caller, left>>
    /\ UNCHANGED frontVars

\* lines 85-87: get_auto returns; a disabled campaign ends the loop
RunGetAuto(k) ==
    /\ run[k].pc = "get_auto"
    /\ LET a == auto[run[k].user_id] IN
       IF ~a.is_enabled
       THEN Finally(k, "done")
       ELSE /\ run' = [run EXCEPT ![k].pc = "payments", ![k].auto = a]
            /\ UNCHANGED <<tasks, stop_events>>
    /\ UNCHANGED <<storeVars, chatVars, event_set, nextTask, caller, left>>
    /\ UNCHANGED frontVars

\* mutant: the cycle goes on whatever _payments_ready returns
RunPaymentsOpen(k) ==
    /\ run[k].pc = "payments"
    /\ IF user_sender /\ personal_chats = <<>>
       THEN run' = [run EXCEPT ![k].pc = "resolve"]
       ELSE AfterResolve(k, ResolveTargets(run[k].auto, personal_chats))
    /\ UNCHANGED <<storeVars, chatVars, tasks, stop_events, event_set, nextTask, caller, left>>
    /\ UNCHANGED frontVars

\* lines 88, 126-132, 91-94: _payments_ready returns; with valid payments
\* the targets are resolved, from the cache when there is one
RunPayments(k) ==
    /\ run[k].pc = "payments"
    /\ IF ~PaymentsReady(HasRecentPaymentForUser(paid, run[k].user_id),
                         HasRecentPayment(paid))
       THEN run' = [run EXCEPT ![k].pc = "disable"]
       ELSE IF user_sender /\ personal_chats = <<>>
            THEN run' = [run EXCEPT ![k].pc = "resolve"]
            ELSE AfterResolve(k, ResolveTargets(run[k].auto, personal_chats))
    /\ UNCHANGED <<storeVars, chatVars, tasks, stop_events, event_set, nextTask, caller, left>>
    /\ UNCHANGED frontVars

\* lines 162, 137-139, 141-158: the cache is empty and is refreshed from
\* list_accessible_chats; when that call raises the cache stays empty
RunResolve(k) ==
    /\ run[k].pc = "resolve"
    /\ \E ok \in BOOLEAN :
         LET personal == IF ok THEN accessible ELSE personal_chats IN
         /\ personal_chats' = personal
         /\ AfterResolve(k, ResolveTargets(run[k].auto, personal))
    /\ UNCHANGED <<storeVars, user_sender, accessible, world, tasks, stop_events,
                   event_set, nextTask, caller, left>>
    /\ UNCHANGED frontVars

\* lines 89-90 and 95-96: set_auto_enabled(False) returns, break
RunDisable(k) ==
    /\ run[k].pc = "disable"
    /\ auto' = SetAutoEnabled(auto, run[k].user_id, FALSE)
    /\ Finally(k, "done")
    /\ UNCHANGED <<stats, payments, now, chatVars, event_set, nextTask, caller, left>>
    /\ UNCHANGED frontVars

\* what one call of the client's send_message can do: return, raise
\* BotKicked/ChatNotFound/Unauthorized, raise ConnectionError, or raise
\* anything else
Outcomes == {"sent", "unavailable", "disconnected", "error"}

\* what the loop sees of a send that raised r: UserSender turns a
\* ConnectionError into RuntimeError (user_sender.py line 218), and for
\* the bot it is caught by `except Exception`
Seen(r) == IF r = "disconnected" THEN "error" ELSE r

\* mutant: a delivery that raises switches the campaign off
RunSendAbort(k) ==
    /\ run[k].pc = "send"
    /\ LET f == run[k]
           chat_id == f.targets[f.idx]
           outcome == Seen(world[chat_id])
           last == f.idx = Len(f.targets)
       IN  IF outcome # "sent"
           THEN run' = [run EXCEPT ![k].pc = "disable"]
           ELSE run' = [run EXCEPT
                   ![k].log = Append(@, <<chat_id, outcome, 1>>),
                   ![k].success = @ + 1,
                   ![k].idx = @ + 1,
                   ![k].pc = IF last THEN "update_stats" ELSE "send"]
    /\ UNCHANGED <<storeVars, chatVars, tasks, stop_events, event_set, nextTask, caller, left>>
    /\ UNCHANGED frontVars

\* mutant: a delivery that raises ends the for loop
RunSendBreak(k) ==
    /\ run[k].pc = "send"
    /\ LET f == run[k]
           chat_id == f.targets[f.idx]
           outcome == Seen(world[chat_id])
           last == f.idx = Len(f.targets) \/ outcome # "sent"
       IN  run' = [run EXCEPT
               ![k].log = Append(@, <<chat_id, outcome, 1>>),
               ![k].success = IF outcome = "sent" THEN @ + 1 ELSE @,
               ![k].errors = IF outcome = "sent" THEN @
                             ELSE Append(@, <<outcome, chat_id>>),
               ![k].idx = @ + 1,
               ![k].pc = IF last THEN "update_stats" ELSE "send"]
    /\ UNCHANGED <<storeVars, chatVars, tasks, stop_events, event_set, nextTask, caller, left>>
    /\ UNCHANGED frontVars

\* mutant: _run_with_reconnect calls the action again after any exception
RunSendRetryAny(k) ==
    /\ run[k].pc = "send"
    /\ LET f == run[k]
           chat_id == f.targets[f.idx]
           raised == world[chat_id]
           again == user_sender /\ raised # "sent"
                       /\ f.tries + 1 < RetryAttempts
           outcome == Seen(raised)
           last == f.idx = Len(f.targets)
       IN  IF again
           THEN run' = [run EXCEPT ![k].tries = @ + 1]
           ELSE run' = [run EXCEPT
                   ![k].log = Append(@, <<chat_id, outcome, f.tries + 1>>),
                   ![k].success = IF outcome = "sent" THEN @ + 1 ELSE @,
                   ![k].errors = IF outcome = "sent" THEN @
                                 ELSE Append(@, <<outcome, chat_id>>),
                   ![k].tries = 0,
                   ![k].idx = @ + 1,
                   ![k].pc = IF last THEN "update_stats" ELSE "send"]
    /\ UNCHANGED <<storeVars, chatVars, tasks, stop_events, event_set, nextTask, caller, left>>
    /\ UNCHANGED frontVars

\* lines 100-110 with UserSender.send_message and _run_with_reconnect
\* (user_sender.py lines 51-58, 206-219): one call of the client's
\* send_message returns or raises; through the user session a
\* ConnectionError is followed by another call, up to RetryAttempts calls
RunSend(k) ==
    /\ run[k].pc = "send"
    /\ LET f == run[k]
           chat_id == f.targets[f.idx]
           raised == world[chat_id]
           again == user_sender /\ raised = "disconnected"
                       /\ f.tries + 1 < RetryAttempts
           outcome == Seen(raised)
           last == f.idx = Len(f.targets)
       IN  IF again
           THEN run' = [run EXCEPT ![k].tries = @ + 1]
           ELSE run' = [run EXCEPT
                   ![k].log = Append(@, <<chat_id, outcome, f.tries + 1>>),
                   ![k].success = IF outcome = "sent" THEN @ + 1 ELSE @,
                   ![k].errors = IF outcome = "sent" THEN @
                                 ELSE Append(@, <<outcome, chat_id>>),
                   ![k].tries = 0,
                   ![k].idx = @ + 1,
                   ![k].pc = IF last THEN "update_stats" ELSE "send"]
    /\ UNCHANGED <<storeVars, chatVars, tasks, stop_events, event_set, nextTask, caller, left>>
    /\ UNCHANGED frontVars

\* line 111: update_stats returns
RunUpdateStats(k) ==
    /\ run[k].pc = "update_stats"
    /\ stats' = UpdateStats(stats, run[k].user_id, run[k].success, run[k].errors)
    /\ run' = [run EXCEPT ![k].pc = "wait_enter"]
    /\ UNCHANGED <<auto, payments, now, chatVars, tasks, stop_events, event_set, nextTask, caller, left>>
    /\ UNCHANGED frontVars

\* mutant: wait_for does not look at an event that is already set
RunWaitEnterDeaf(k) ==
    /\ run[k].pc = "wait_enter"
    /\ run' = [run EXCEPT ![k].pc = "waiting"]
    /\ UNCHANGED <<storeVars, chatVars, tasks, stop_events, event_set, nextTask, caller, left>>
    /\ UNCHANGED frontVars

\* lines 113-117: wait_for starts; an event that is already set ends the
\* wait at once, the event is cleared and the loop ends
RunWaitEnter(k) ==
    /\ run[k].pc = "wait_enter"
    /\ IF event_set[k]
       THEN /\ event_set' = [event_set EXCEPT ![k] = FALSE]
            /\ Finally(k, "done")
       ELSE /\ run' = [run EXCEPT ![k].pc = "waiting"]
            /\ UNCHANGED <<tasks, stop_events, event_set>>
    /\ UNCHANGED <<storeVars, chatVars, nextTask, caller, left>>
    /\ UNCHANGED frontVars

\* lines 115-117: the event is set during the wait
RunWaitCancelled(k) ==
    /\ run[k].pc = "waiting"
    /\ event_set[k]
    /\ event_set' = [event_set EXCEPT ![k] = FALSE]
    /\ Finally(k, "done")
    /\ UNCHANGED <<storeVars, chatVars, nextTask, caller, left>>
    /\ UNCHANGED frontVars

\* lines 118-119: the timeout fires first (it may also win the race
\* against an event set at the same instant), continue
RunWaitTimeout(k) ==
    /\ run[k].pc = "waiting"
    /\ left.timeouts > 0
    /\ left' = Spend("timeouts")
    /\ run' = [run EXCEPT ![k] = TopFrame(@)]
    /\ UNCHANGED <<storeVars, chatVars, tasks, stop_events, event_set, nextTask, caller>>
    /\ UNCHANGED frontVars

\* a Store call of the cycle raises: nothing catches it before the
\* finally block (lines 83, 120), the task ends with the exception
StoreCallPcs == {"get_auto", "payments", "disable", "update_stats"}

RunStoreError(k) ==
    /\ run[k].pc \in StoreCallPcs
    /\ left.env > 0
    /\ left' = Spend("env")
    /\ Finally(k, "failed")
    /\ UNCHANGED <<storeVars, chatVars, event_set, nextTask, caller>>
    /\ UNCHANGED frontVars

\* ------------------------------------------- the scheduler's operations
\* mutant: the check of line 75 never finds a live task
CurrentLiveNever(user_id) == FALSE

\* lines 74-75: current and not current.done()
CurrentLive(user_id) == user_id \in DOMAIN tasks /\ ~Done(tasks[user_id])

\* the caller's frame f becomes the frame of caller c
Frame(c, f) == caller' = [caller EXCEPT ![c] = f]

\* what is left of frame f when the call has returned or raised: which
\* operation it was, the task stop_user awaited, the task it created
Ended(f, how, made) ==
    [IdleCaller EXCEPT !.op = f.op, !.user_id = f.user_id, !.pc = how,
                       !.task = f.task, !.made = made,
                       !.outer = f.outer, !.on = f.on,
                       !.todo = IF how = "returned" THEN f.todo ELSE <<>>]

\* _start_task_for_user, lines 72-80, run by caller c whose frame is f
StartTaskForUser(c, f) ==
    IF CurrentLive(f.user_id)
    THEN /\ Frame(c, Ended(f, "returned", {}))
         /\ UNCHANGED <<tasks, stop_events, run, nextTask>>
    ELSE /\ nextTask <= MaxTasks
         /\ run' = [run EXCEPT ![nextTask] = NewFrame(f.user_id)]
         /\ tasks' = Put(tasks, f.user_id, nextTask)
         /\ stop_events' = Put(stop_events, f.user_id, nextTask)
         /\ nextTask' = nextTask + 1
         /\ Frame(c, Ended(f, "returned", {nextTask}))

\* stop_user once `await task` (line 66) is over, and what the caller does
\* next: the exception of a failed task is raised in the caller;
\* refresh_user goes on to line 56 (then = "start") or returns
AfterStop(c, f) ==
    IF \E k \in f.task : run[k].pc = "failed"
    THEN /\ Frame(c, Ended(f, "raised", {}))
         /\ UNCHANGED <<tasks, stop_events, run, nextTask>>
    ELSE IF f.then = "start"
    THEN StartTaskForUser(c, f)
    ELSE /\ Frame(c, Ended(f, "returned", {}))
         /\ UNCHANGED <<tasks, stop_events, run, nextTask>>

\* mutant: stop_user sets the event and returns without awaiting the task
StopUserNoAwait(c, f, then) ==
    LET user_id == f.user_id
        observed == IF user_id \in DOMAIN tasks THEN {tasks[user_id]} ELSE {}
    IN
    /\ event_set' = IF user_id \in DOMAIN stop_events
                    THEN [event_set EXCEPT ![stop_events[user_id]] = TRUE]
                    ELSE event_set
    /\ IF then = "start"
       THEN StartTaskForUser(c, [f EXCEPT !.task = observed, !.then = then])
       ELSE /\ Frame(c, Ended([f EXCEPT !.task = observed], "returned", {}))
            /\ UNCHANGED <<tasks, stop_events, run, nextTask>>

\* mutant: stop_user awaits the task without setting its event
StopUserSilent(c, f, then) ==
    LET user_id == f.user_id
        observed == IF user_id \in DOMAIN tasks THEN {tasks[user_id]} ELSE {}
        g == [f EXCEPT !.task = observed, !.then = then]
    IN
    /\ event_set' = event_set
    /\ IF \E k \in observed : ~Done(k)
       THEN /\ Frame(c, [g EXCEPT !.pc = "await"])
            /\ UNCHANGED <<tasks, stop_events, run, nextTask>>
       ELSE AfterStop(c, g)

\* stop_user, lines 58-66, called by c: set the registered event, pick
\* the registered task, await it when there is one
StopUser(c, f, then) ==
    LET user_id == f.user_id
        observed == IF user_id \in DOMAIN tasks THEN {tasks[user_id]} ELSE {}
        g == [f EXCEPT !.task = observed, !.then = then]
    IN
    /\ event_set' = IF user_id \in DOMAIN stop_events
                    THEN [event_set EXCEPT ![stop_events[user_id]] = TRUE]
                    ELSE event_set
    /\ IF \E k \in observed : ~Done(k)
       THEN /\ Frame(c, [g EXCEPT !.pc = "await"])
            /\ UNCHANGED <<tasks, stop_events, run, nextTask>>
       ELSE AfterStop(c, g)

CanBegin(c) ==
    /\ caller[c].pc \in {"idle", "returned", "raised"}
    /\ caller[c].todo = <<>>
    /\ left.ops > 0

\* the destinations of campaign a that the active sender can reach when
\* the delivery account is in the chats acc (spec 3)
ReachableIn(a, acc) ==
    IF user_sender
    THEN IF a.target_chat_ids # <<>>
         THEN Filter(a.target_chat_ids, Range(acc))
         ELSE acc
    ELSE a.target_chat_ids

Reachable(t) == ReachableIn(auto[t], accessible)

\* campaign a of tenant t is not runnable when p have paid (spec 3, 4.2)
IneligibleIn(a, p, acc, t) ==
    \/ ~a.is_enabled
    \/ t \notin p
    \/ p = {}
    \/ a.message = ""
    \/ a.interval_minutes <= 0
    \/ ReachableIn(a, acc) = <<>>

Ineligible(t) == IneligibleIn(auto[t], paid, accessible, t)

\* the frame of a fresh call of operation op for tenant user_id; seen and
\* unfit record the moment of the call: the tasks created so far, and
\* whether the campaign was runnable
Call(op, user_id) ==
    [IdleCaller EXCEPT !.op = op, !.user_id = user_id, !.seen = nextTask,
                       !.unfit = Ineligible(user_id)]

\* a handler calls _start_task_for_user (ensure_running), lines 72-80
EnsureRunning(c, t) ==
    /\ CanBegin(c)
    /\ left' = Spend("ops")
    /\ StartTaskForUser(c, Call("start", t))
    /\ UNCHANGED <<storeVars, chatVars, event_set>>
    /\ UNCHANGED frontVars

\* cb_auto_start, lines 1175-1178: the handler starts, answers the
\* callback query and waits for refresh_user_delivery_chats
CbAutoStart(c, t) ==
    /\ CanBegin(c)
    /\ left' = Spend("ops")
    /\ Frame(c, [Call("auto_start", t) EXCEPT !.pc = "a_sync"])
    /\ UNCHANGED <<storeVars, chatVars, regVars, frontVars>>

\* the sets of chats sync_known_chats can find the delivery account in
ReadySets == {{}, {10, 20}, Chats}

\* mutant: the handler does not check the interval
StartAllowedAnyInterval(a, ready, p, user_id) ==
    /\ a.message # ""
    /\ a.target_chat_ids # <<>>
    /\ \A i \in DOMAIN a.target_chat_ids : a.target_chat_ids[i] \in ready
    /\ HasRecentPaymentForUser(p, user_id)
    /\ HasRecentPayment(p)

\* cb_auto_start, the checks of lines 1178-1215 on campaign a, the
\* delivery-ready chats and the users p whose payment is valid
StartAllowed(a, ready, p, user_id) ==
    /\ a.message # ""
    /\ a.target_chat_ids # <<>>
    /\ \A i \in DOMAIN a.target_chat_ids : a.target_chat_ids[i] \in ready
    /\ a.interval_minutes > 0
    /\ HasRecentPaymentForUser(p, user_id)
    /\ HasRecentPayment(p)

\* cb_auto_start, lines 1176-1218, from the last suspension of
\* sync_known_chats on: the delivery flags are replaced (or kept, when the
\* bot delivers or the sync failed), then get_auto, the checks,
\* set_auto_enabled and ensure_running follow without a suspension
AutoStartResume(c) ==
    /\ caller[c].pc = "a_sync"
    /\ \E ready \in {delivery_ready} \cup ReadySets :
         LET user_id == caller[c].user_id IN
         /\ delivery_ready' = ready
         /\ IF StartAllowed(auto[user_id], ready, paid, user_id)
            THEN /\ auto' = SetAutoEnabled(auto, user_id, TRUE)
                 /\ StartTaskForUser(c, caller[c])
            ELSE /\ Frame(c, Ended(caller[c], "returned", {}))
                 /\ UNCHANGED <<auto, tasks, stop_events, run, nextTask>>
    /\ UNCHANGED <<stats, payments, now, chatVars, event_set, left, deciding, dialogVars>>

\* a handler calls stop_user, lines 58-66
Stop(c, t) ==
    /\ CanBegin(c)
    /\ left' = Spend("ops")
    /\ StopUser(c, Call("stop", t), "return")
    /\ UNCHANGED <<storeVars, chatVars>>
    /\ UNCHANGED frontVars

\* line 66: the awaited task has finished, the caller resumes
AwaitTask(c) ==
    /\ caller[c].pc = "await"
    /\ \A k \in caller[c].task : Done(k)
    /\ AfterStop(c, caller[c])
    /\ UNCHANGED <<storeVars, chatVars, event_set, left>>
    /\ UNCHANGED frontVars

\* a handler calls refresh_user, line 38; get_auto (line 39) is pending
Refresh(c, t) ==
    /\ CanBegin(c)
    /\ left' = Spend("ops")
    /\ Frame(c, [Call("refresh", t) EXCEPT !.pc = "r_get_auto"])
    /\ UNCHANGED <<storeVars, chatVars, regVars>>
    /\ UNCHANGED frontVars

\* lines 39-42: get_auto returns; a disabled campaign is stopped
RefreshGetAuto(c) ==
    /\ caller[c].pc = "r_get_auto"
    /\ IF ~auto[caller[c].user_id].is_enabled
       THEN StopUser(c, caller[c], "return")
       ELSE /\ Frame(c, [caller[c] EXCEPT !.pc = "r_payments"])
            /\ UNCHANGED regVars
    /\ UNCHANGED <<storeVars, chatVars, left>>
    /\ UNCHANGED frontVars

\* lines 43, 126-132 inside refresh_user: _payments_ready returns
RefreshPayments(c) ==
    /\ caller[c].pc = "r_payments"
    /\ Frame(c, [caller[c] EXCEPT !.pc =
            IF PaymentsReady(HasRecentPaymentForUser(paid, caller[c].user_id),
                             HasRecentPayment(paid))
            THEN "r_ensure" ELSE "r_disable"])
    /\ UNCHANGED <<storeVars, chatVars, regVars, left>>
    /\ UNCHANGED frontVars

\* lines 44-46: set_auto_enabled(False) returns, then stop_user
RefreshDisable(c) ==
    /\ caller[c].pc = "r_disable"
    /\ auto' = SetAutoEnabled(auto, caller[c].user_id, FALSE)
    /\ StopUser(c, caller[c], "return")
    /\ UNCHANGED <<stats, payments, now, chatVars, left>>
    /\ UNCHANGED frontVars

\* lines 47-50: ensure_constraints returns
RefreshEnsure(c) ==
    /\ caller[c].pc = "r_ensure"
    /\ auto' = EnsureConstraints(auto, caller[c].user_id, ~user_sender)
    /\ Frame(c, [caller[c] EXCEPT !.pc = "r_get_auto2"])
    /\ UNCHANGED <<stats, payments, now, chatVars, regVars, left>>
    /\ UNCHANGED frontVars

\* lines 51-56: get_auto returns; stop_user, then for an enabled campaign
\* _start_task_for_user
RefreshGetAuto2(c) ==
    /\ caller[c].pc = "r_get_auto2"
    /\ StopUser(c, caller[c],
                IF auto[caller[c].user_id].is_enabled THEN "start" ELSE "return")
    /\ UNCHANGED <<storeVars, chatVars, left>>
    /\ UNCHANGED frontVars

\* Storage.list_auto_user_ids: the tenants that have a campaign
ListAutoUserIds == <<1, 2>>

\* refresh_user(user_id) is called inside refresh_all by the caller whose
\* frame is f: get_auto (line 39) is pending
RefreshInside(f, user_id, todo) ==
    [Call("refresh", user_id) EXCEPT !.pc = "r_get_auto", !.outer = f.outer,
                                     !.todo = todo, !.on = f.on]

\* on_startup calls start_if_enabled, lines 31-35, before anything else
\* uses the scheduler; list_auto_user_ids is pending
StartIfEnabled(c) ==
    /\ CanBegin(c)
    /\ left.ops = BootOps
    /\ left' = Spend("ops")
    /\ Frame(c, [IdleCaller EXCEPT !.op = "refresh_all", !.pc = "list_users",
                                   !.outer = "refresh_all",
                                   !.on = {t \in Tenants : auto[t].is_enabled}])
    /\ UNCHANGED <<storeVars, chatVars, regVars>>
    /\ UNCHANGED frontVars

\* lines 35-36: list_auto_user_ids returns, refresh_user of the first
\* user id is called
RefreshAllList(c) ==
    /\ caller[c].pc = "list_users"
    /\ Frame(c, RefreshInside(caller[c], Head(ListAutoUserIds), Tail(ListAutoUserIds)))
    /\ UNCHANGED <<storeVars, chatVars, regVars, left>>
    /\ UNCHANGED frontVars

\* lines 35-36: refresh_user has returned, the for loop calls it for the
\* next user id
RefreshAllNext(c) ==
    /\ caller[c].pc = "returned"
    /\ caller[c].outer = "refresh_all"
    /\ caller[c].todo # <<>>
    /\ Frame(c, RefreshInside(caller[c], Head(caller[c].todo), Tail(caller[c].todo)))
    /\ UNCHANGED <<storeVars, chatVars, regVars, left>>
    /\ UNCHANGED frontVars

\* the orders in which a set of user ids can be listed
Orders(ids) ==
    {o \in [1..Cardinality(ids) -> ids] : \A i, j \in DOMAIN o : o[i] = o[j] => i = j}

\* stop_user(user_id) is called inside stop_all
StopInside(user_id, todo) ==
    [Call("stop", user_id) EXCEPT !.outer = "stop_all", !.todo = todo]

\* on_shutdown calls stop_all, lines 68-70: the keys of _tasks are copied
\* and stop_user of the first one is called
StopAll(c) ==
    /\ CanBegin(c)
    /\ left' = Spend("ops")
    /\ \E keys \in Orders(DOMAIN tasks) :
         IF keys = <<>>
         THEN /\ Frame(c, [IdleCaller EXCEPT !.op = "stop_all", !.pc = "returned",
                                            !.outer = "stop_all"])
              /\ UNCHANGED regVars
         ELSE StopUser(c, StopInside(Head(keys), Tail(keys)), "return")
    /\ UNCHANGED <<storeVars, chatVars>>
    /\ UNCHANGED frontVars

\* lines 69-70: stop_user has returned, the for loop calls it for the
\* next key of the copy
StopAllNext(c) ==
    /\ caller[c].pc = "returned"
    /\ caller[c].outer = "stop_all"
    /\ caller[c].todo # <<>>
    /\ StopUser(c, StopInside(Head(caller[c].todo), Tail(caller[c].todo)), "return")
    /\ UNCHANGED <<storeVars, chatVars, left>>
    /\ UNCHANGED frontVars

\* a Store call of refresh_user raises: the call ends there
RefreshStoreError(c) ==
    /\ caller[c].pc \in {"r_get_auto", "r_payments", "r_disable", "r_ensure",
                         "r_get_auto2"}
    /\ left.env > 0
    /\ left' = Spend("env")
    /\ Frame(c, Ended(caller[c], "raised", {}))
    /\ UNCHANGED <<storeVars, chatVars, regVars>>
    /\ UNCHANGED frontVars

\* ------------------------------------------ the front-end and the world
\* cb_auto_start / cb_auto_stop write the flag (Storage.set_auto_enabled)
SetEnabled(t, enabled) ==
    /\ left.env > 0
    /\ auto[t].is_enabled # enabled
    /\ left' = Spend("env")
    /\ auto' = SetAutoEnabled(auto, t, enabled)
    /\ UNCHANGED <<stats, payments, now, chatVars, regVars, caller>>
    /\ UNCHANGED frontVars

\* the message, the interval or the targets are rewritten
\* (Storage.set_auto_message, set_auto_interval, set_target_chats)
SetConfig(t) ==
    /\ left.env > 0
    /\ left' = Spend("env")
    /\ \E c \in Campaigns :
         /\ c.is_enabled = auto[t].is_enabled
         /\ Cardinality({fld \in {"message", "interval_minutes", "target_chat_ids"} :
                            c[fld] # auto[t][fld]}) = 1
         /\ auto' = [auto EXCEPT ![t] = c]
    /\ UNCHANGED <<stats, payments, now, chatVars, regVars, caller>>
    /\ UNCHANGED frontVars

\* a user files a payment (Storage.create_payment_request)
CreatePaymentRequest(u) ==
    /\ left.env > 0
    /\ Len(payments) < MaxPayments
    /\ left' = Spend("env")
    /\ payments' = Append(payments, PaymentRow(u, "pending", <<>>))
    /\ UNCHANGED <<auto, stats, now, chatVars, regVars, caller>>
    /\ UNCHANGED frontVars

\* Storage.set_payment_status, lines 241-269: the UPDATE has no condition
\* on the present status
SetPaymentStatus(ledger, request_id, status, admin_id) ==
    [ledger EXCEPT ![request_id].status = status,
                   ![request_id].resolved_at = <<now>>,
                   ![request_id].resolved_by_admin_id = <<admin_id>>]

\* the decision of an admin: "approved" or "declined"
Decided(action) == IF action = "approve" THEN "approved" ELSE "declined"

\* an admin presses a button under the notification of request
\* request_id; every admin has received that notification, and the
\* callback query is on its way to the handler
CbPaymentDecision(admin_id, request_id, action) ==
    /\ left.env > 0
    /\ deciding[admin_id] = <<>>
    /\ request_id \in DOMAIN payments
    /\ left' = Spend("env")
    /\ deciding' = [deciding EXCEPT ![admin_id] =
                        <<[request_id |-> request_id, action |-> action]>>]
    /\ UNCHANGED <<storeVars, chatVars, regVars, caller, delivery_ready, dialogVars>>

\* mutant: the handler does not look at the status it has read
PaymentDecisionBlind(admin_id) ==
    /\ deciding[admin_id] # <<>>
    /\ LET d == deciding[admin_id][1] IN
         payments' = SetPaymentStatus(payments, d.request_id, Decided(d.action), admin_id)
    /\ deciding' = [deciding EXCEPT ![admin_id] = <<>>]
    /\ UNCHANGED <<auto, stats, now, chatVars, regVars, caller, left,
                   delivery_ready, dialogVars>>

\* cb_payment_decision, lines 1121-1136: get_payment, the check of the
\* status and set_payment_status.  No call of Storage contains an await
\* (sqlite3 and psycopg are used synchronously under a lock that is never
\* held across a suspension), so the three run without another handler
\* in between
PaymentDecision(admin_id) ==
    /\ deciding[admin_id] # <<>>
    /\ LET d == deciding[admin_id][1] IN
         payments' = IF payments[d.request_id].status # "pending"
                     THEN payments
                     ELSE SetPaymentStatus(payments, d.request_id,
                                           Decided(d.action), admin_id)
    /\ deciding' = [deciding EXCEPT ![admin_id] = <<>>]
    /\ UNCHANGED <<auto, stats, now, chatVars, regVars, caller, left,
                   delivery_ready, dialogVars>>

\* cb_manual_payment_decision: an admin files a request for user u and
\* decides it at once
ManualPaymentDecision(u, action, admin_id) ==
    /\ left.env > 0
    /\ Len(payments) < MaxPayments
    /\ left' = Spend("env")
    /\ payments' = SetPaymentStatus(Append(payments, PaymentRow(u, "pending", <<>>)),
                                    Len(payments) + 1, Decided(action), admin_id)
    /\ UNCHANGED <<auto, stats, now, chatVars, regVars, caller>>
    /\ UNCHANGED frontVars

\* a day passes
MaxNow == PaymentValidDays + 2

Tick ==
    /\ left.env > 0
    /\ now < MaxNow
    /\ left' = Spend("env")
    /\ now' = now + 1
    /\ UNCHANGED <<auto, stats, payments, chatVars, regVars, caller>>
    /\ UNCHANGED frontVars

\* the delivery account joins or leaves chats
SetAccessible ==
    /\ left.env > 0
    /\ user_sender
    /\ left' = Spend("env")
    /\ \E a \in {<<>>, <<20>>, <<10, 20, 30>>} :
         /\ a # accessible
         /\ accessible' = a
    /\ UNCHANGED <<storeVars, user_sender, personal_chats, world, regVars, caller>>
    /\ UNCHANGED frontVars

\* a chat starts or stops rejecting deliveries
SetWorld(chat_id, outcome) ==
    /\ left.env > 0
    /\ world[chat_id] # outcome
    /\ left' = Spend("env")
    /\ world' = [world EXCEPT ![chat_id] = outcome]
    /\ UNCHANGED <<storeVars, user_sender, personal_chats, accessible, regVars, caller>>
    /\ UNCHANGED frontVars

\* the network or the delivery account fails for every chat at once
SetWorldAll(outcome) ==
    /\ left.env > 0
    /\ \E chat_id \in Chats : world[chat_id] # outcome
    /\ left' = Spend("env")
    /\ world' = [chat_id \in Chats |-> outcome]
    /\ UNCHANGED <<storeVars, user_sender, personal_chats, accessible, regVars, caller>>
    /\ UNCHANGED frontVars

\* ---------------------------------------- the dialogs of the user session
\* a text is the sequence of its characters
Whitespace == {" "}
DigitChars == {"0", "1", "2", "3", "4", "5", "6", "7", "8", "9"}

\* n times the character ch
RECURSIVE Rep(_, _)
Rep(ch, n) == IF n = 0 THEN <<>> ELSE <<ch>> \o Rep(ch, n - 1)

\* str.strip()
RECURSIVE LStrip(_)
LStrip(text) ==
    IF text # <<>> /\ Head(text) \in Whitespace THEN LStrip(Tail(text)) ELSE text

RECURSIVE RStrip(_)
RStrip(text) ==
    IF text # <<>> /\ text[Len(text)] \in Whitespace
    THEN RStrip(SubSeq(text, 1, Len(text) - 1))
    ELSE text

Strip(text) == RStrip(LStrip(text))

\* str.lower(), on the letters the texts below are written with
LowerChar(ch) ==
    CASE ch = "A" -> "a"
      [] ch = "C" -> "c"
      [] ch = "E" -> "e"
      [] ch = "L" -> "l"
      [] ch = "N" -> "n"
      [] OTHER -> ch

Lower(text) == [i \in DOMAIN text |-> LowerChar(text[i])]

\* str.isdigit()
IsDigit(ch) == ch \in DigitChars

\* mutant: the card number is the text as it was sent
DigitsAsSent(text_raw) == text_raw

\* line 88: "".join(ch for ch in text_raw if ch.isdigit())
Digits(text_raw) == SelectSeq(text_raw, IsDigit)

CancelText == <<"/", "c", "a", "n", "c", "e", "l">>

\* mutant: the command is compared as it was typed
IsCancelExact(text_raw) == text_raw = CancelText

\* lines 71-72: text_raw.lower() == "/cancel"
IsCancel(text_raw) == Lower(text_raw) = CancelText

\* mutant: the lower limit of line 89 is missing
ValidCardAnyShort(digits) == ~(digits = <<>> \/ Len(digits) > MaxCardDigits)

\* line 89, negated
ValidCard(digits) ==
    ~(digits = <<>> \/ Len(digits) < MinCardDigits \/ Len(digits) > MaxCardDigits)

\* the texts a sender writes: small talk, a name, a name of two letters
\* between blanks, card numbers of 12 digits, of 16 digits in groups, of
\* 11 and of 20 digits, and the command in two spellings
TextHi         == <<"h", "i">>
TextName       == <<"A", "n", "n">>
TextShortName  == <<" ", "A", "l", " ">>
TextCard       == Rep("4", MinCardDigits)
TextCardGroups == Rep("8", 4) \o <<" ">> \o Rep("6", 4) \o <<"-">> \o Rep("0", 4)
                      \o <<" ">> \o Rep("1", 4)
TextCardShort  == Rep("4", MinCardDigits - 1)
TextCardLong   == Rep("4", MaxCardDigits + 1)
TextCancel     == CancelText
TextCancelCaps == <<" ", "/", "C", "A", "N", "C", "E", "L">>

Texts == {TextHi, TextName, TextShortName, TextCard, TextCardGroups,
          TextCardShort, TextCardLong, TextCancel, TextCancelCaps}

\* a value of _states: {"step": ...} with or without "card_number"
DialogState(step, card_number) == [step |-> step, card_number |-> card_number]

\* lines 80-110, the block under _state_lock: the new _states, the action
\* chosen and the card number handed to _finalize_payment
Transition(st, sender_id, text_raw) ==
    LET fresh == [states |-> Put(st, sender_id, DialogState("card_number", <<>>)),
                  action |-> "welcome", card_number |-> <<>>]
    IN
    IF sender_id \notin DOMAIN st
    THEN fresh
    ELSE LET state == st[sender_id] IN
         CASE state.step = "card_number" ->
                LET digits == Digits(text_raw) IN
                IF ~ValidCard(digits)
                THEN [states |-> st, action |-> "invalid_card", card_number |-> <<>>]
                ELSE [states |-> Put(st, sender_id, DialogState("card_name", digits)),
                      action |-> "ask_name", card_number |-> <<>>]
           [] state.step = "card_name" ->
                IF state.card_number = <<>>
                THEN fresh
                ELSE IF Len(text_raw) < MinNameLen
                THEN [states |-> st, action |-> "invalid_name", card_number |-> <<>>]
                ELSE [states |-> Pop(st, sender_id), action |-> "complete",
                      card_number |-> state.card_number]
           [] OTHER -> fresh

\* UserDialogResponder.start, lines 47-54
DialogStart ==
    /\ ~handler_registered
    /\ handler_registered' = TRUE
    /\ UNCHANGED <<storeVars, chatVars, regVars, caller, left, delivery_ready, deciding,
                   states, finalizing, heard>>

\* UserDialogResponder.stop, lines 56-62
DialogStop ==
    /\ left.env > 0
    /\ handler_registered
    /\ left' = Spend("env")
    /\ handler_registered' = FALSE
    /\ states' = <<>>
    /\ UNCHANGED <<storeVars, chatVars, regVars, caller, delivery_ready, deciding,
                   finalizing, heard>>

\* _handle_new_message, lines 64-129, for a private incoming message
\* raw_text of sender_id, up to the first suspension: the block under
\* _state_lock is never interrupted, the answer is sent afterwards, and a
\* completed dialog goes on in _finalize_payment
HandleNewMessage(sender_id, raw_text) ==
    /\ left.env > 0
    /\ handler_registered
    /\ left' = Spend("env")
    /\ LET text_raw == Strip(raw_text)
           r == IF IsCancel(text_raw)
                THEN [states |-> Pop(states, sender_id), action |-> "cancel",
                      card_number |-> <<>>]
                ELSE Transition(states, sender_id, text_raw)
       IN  /\ states' = r.states
           /\ heard' = [heard EXCEPT ![sender_id] =
                           Append(@, [text |-> raw_text, action |-> r.action])]
           /\ finalizing' =
                 IF r.action = "complete" /\ r.card_number # <<>>
                 THEN Append(finalizing, [sender_id |-> sender_id,
                                          card_number |-> r.card_number,
                                          card_name |-> text_raw])
                 ELSE finalizing
    /\ UNCHANGED <<storeVars, chatVars, regVars, caller, delivery_ready, deciding,
                   handler_registered>>

\* the sequence s without its element i
Without(s, i) == SubSeq(s, 1, i - 1) \o SubSeq(s, i + 1, Len(s))

\* _finalize_payment, lines 138-154: event.get_sender() has returned and
\* create_payment_request files the request
FinalizePayment(i) ==
    /\ i \in DOMAIN finalizing
    /\ Len(payments) < MaxPayments
    /\ LET f == finalizing[i] IN
         payments' = Append(payments,
                        [PaymentRow(f.sender_id, "pending", <<>>) EXCEPT
                            !.card_number = f.card_number,
                            !.card_name = Strip(f.card_name)])
    /\ finalizing' = Without(finalizing, i)
    /\ UNCHANGED <<auto, stats, now, chatVars, regVars, caller, left, delivery_ready,
                   deciding, handler_registered, states, heard>>

\* _finalize_payment, lines 138-153: event.get_sender() raises, or
\* create_payment_request raises and the sender is asked to try again
FinalizeFails(i) ==
    /\ i \in DOMAIN finalizing
    /\ finalizing' = Without(finalizing, i)
    /\ UNCHANGED <<storeVars, chatVars, regVars, caller, left, delivery_ready,
                   deciding, handler_registered, states, heard>>

\* ------------------------------------------------------------------ Next
RunStep(k) ==
    \/ RunGetAuto(k)
    \/ RunPayments(k)
    \/ RunResolve(k)
    \/ RunDisable(k)
    \/ RunSend(k)
    \/ RunUpdateStats(k)
    \/ RunWaitEnter(k)
    \/ RunWaitCancelled(k)
    \/ RunWaitTimeout(k)

Scheduler ==
    \/ \E k \in TaskIds : RunStep(k)
    \/ \E k \in TaskIds : RunStoreError(k)
    \/ \E c \in Callers, t \in Tenants : EnsureRunning(c, t)
    \/ \E c \in Callers, t \in Tenants : Stop(c, t)
    \/ \E c \in Callers, t \in Tenants : Refresh(c, t)
    \/ \E c \in Callers : AwaitTask(c)
    \/ \E c \in Callers : RefreshGetAuto(c)
    \/ \E c \in Callers : RefreshPayments(c)
    \/ \E c \in Callers : RefreshDisable(c)
    \/ \E c \in Callers : RefreshEnsure(c)
    \/ \E c \in Callers : RefreshGetAuto2(c)
    \/ \E c \in Callers : RefreshStoreError(c)

Next ==
    \/ Scheduler
    \/ \E t \in Tenants, b \in BOOLEAN : SetEnabled(t, b)
    \/ \E u \in Tenants : ManualPaymentDecision(u, "approve", "admin1")
    \/ Tick

NextCycle ==
    \/ Scheduler
    \/ \E t \in Tenants, b \in BOOLEAN : SetEnabled(t, b)
    \/ \E t \in Tenants : SetConfig(t)
    \/ \E u \in Tenants : ManualPaymentDecision(u, "approve", "admin1")
    \/ Tick
    \/ SetAccessible
    \/ \E chat_id \in Chats, outcome \in Outcomes : SetWorld(chat_id, outcome)
    \/ \E outcome \in Outcomes \ {"sent"} : SetWorldAll(outcome)

Spec == Init /\ [][Next]_vars

SpecCycle == InitCycle /\ [][NextCycle]_vars

\* start-up and shutdown: start_if_enabled and stop_all next to handlers
\* that start loops, over every kind of persisted campaign; the Store
\* answers and nothing outside the scheduler changes
NextBoot ==
    \/ \E k \in TaskIds : RunStep(k)
    \/ \E c \in Callers : StartIfEnabled(c)
    \/ \E c \in Callers : RefreshAllList(c)
    \/ \E c \in Callers : RefreshAllNext(c)
    \/ \E c \in Callers : StopAll(c)
    \/ \E c \in Callers : StopAllNext(c)
    \/ \E c \in Callers, t \in Tenants : EnsureRunning(c, t)
    \/ \E c \in Callers : AwaitTask(c)
    \/ \E c \in Callers : RefreshGetAuto(c)
    \/ \E c \in Callers : RefreshPayments(c)
    \/ \E c \in Callers : RefreshDisable(c)
    \/ \E c \in Callers : RefreshEnsure(c)
    \/ \E c \in Callers : RefreshGetAuto2(c)

SpecBoot == InitBoot /\ [][NextBoot]_vars

\* asyncio runs every task that is ready, Store and Sender calls return
\* and an armed timer fires: each step of a loop is eventually taken
SpecLive == InitCycle /\ [][Next]_vars /\ \A k \in TaskIds : WF_vars(RunStep(k))

\* the scheduler while every Store and Sender call returns: the steps of
\* Next without the two in which a Store call raises
NextDrain ==
    \/ \E k \in TaskIds : RunStep(k)
    \/ \E c \in Callers, t \in Tenants : EnsureRunning(c, t)
    \/ \E c \in Callers, t \in Tenants : Stop(c, t)
    \/ \E c \in Callers, t \in Tenants : Refresh(c, t)
    \/ \E c \in Callers : AwaitTask(c)
    \/ \E c \in Callers : RefreshGetAuto(c)
    \/ \E c \in Callers : RefreshPayments(c)
    \/ \E c \in Callers : RefreshDisable(c)
    \/ \E c \in Callers : RefreshEnsure(c)
    \/ \E c \in Callers : RefreshGetAuto2(c)
    \/ \E t \in Tenants, b \in BOOLEAN : SetEnabled(t, b)
    \/ \E u \in Tenants : ManualPaymentDecision(u, "approve", "admin1")
    \/ Tick

\* asyncio runs every task that is ready: each step of a loop is
\* eventually taken, and a coroutine that awaits a finished task resumes
SpecDrain ==
    /\ InitCycle
    /\ [][NextDrain]_vars
    /\ \A k \in TaskIds : WF_vars(RunStep(k))
    /\ \A c \in Callers : WF_vars(AwaitTask(c))

\* the ledger by itself: a new database, the payment handlers and the
\* passing days, with the scheduler idle
InitLedger ==
    /\ InitScheduler
    /\ InitFront
    /\ auto = [t \in Tenants |-> [Runnable EXCEPT !.is_enabled = (t = 1)]]
    /\ stats = [t \in Tenants |-> NoStats]
    /\ payments = <<>>
    /\ now = 0
    /\ user_sender = TRUE
    /\ accessible = <<10, 20, 30>>
    /\ world = [chat_id \in Chats |-> "sent"]
    /\ left = Budget(0, LedgerEnv, 0)

NextLedger ==
    \/ \E u \in Tenants : CreatePaymentRequest(u)
    \/ \E admin_id \in Admins, request_id \in 1..MaxPayments,
          action \in {"approve", "decline"} :
            CbPaymentDecision(admin_id, request_id, action)
    \/ \E admin_id \in Admins : PaymentDecision(admin_id)
    \/ \E u \in Tenants, action \in {"approve", "decline"} :
            ManualPaymentDecision(u, action, "admin1")
    \/ Tick

SpecLedger == InitLedger /\ [][NextLedger]_vars

\* one loop sending through the user session while the connection comes
\* and goes: any chat may be failing at the start and change while the
\* loop sends
InitReconnect ==
    /\ InitScheduler
    /\ InitFront
    /\ auto = [t \in Tenants |-> [Runnable EXCEPT !.is_enabled = (t = 1)]]
    /\ stats = [t \in Tenants |-> NoStats]
    /\ payments = PaidLedger
    /\ now = PaymentValidDays
    /\ user_sender = TRUE
    /\ accessible = <<10, 20, 30>>
    /\ world \in [Chats -> Outcomes]
    /\ left = Budget(1, ReconnectEnv, 0)

NextReconnect ==
    \/ \E c \in Callers : EnsureRunning(c, 1)
    \/ \E k \in TaskIds : RunGetAuto(k)
    \/ \E k \in TaskIds : RunPayments(k)
    \/ \E k \in TaskIds : RunResolve(k)
    \/ \E k \in TaskIds : RunSend(k)
    \/ \E k \in TaskIds : RunUpdateStats(k)
    \/ \E k \in TaskIds : RunWaitEnter(k)
    \/ \E chat_id \in Chats, outcome \in Outcomes : SetWorld(chat_id, outcome)

SpecReconnect == InitReconnect /\ [][NextReconnect]_vars

\* the start button: the campaigns a user can have composed before
\* pressing it
StartCampaigns ==
    {Runnable,
     [Runnable EXCEPT !.is_enabled = FALSE],
     [Runnable EXCEPT !.is_enabled = FALSE, !.message = ""],
     [Runnable EXCEPT !.is_enabled = FALSE, !.interval_minutes = 0],
     [Runnable EXCEPT !.is_enabled = FALSE, !.target_chat_ids = <<>>]}

\* any such campaigns; both users paid, or only user 2; the payments
\* valid, valid for user 2 only, or expired; the delivery account in all,
\* some or none of the chats
InitStart ==
    /\ InitScheduler
    /\ auto \in [Tenants -> StartCampaigns]
    /\ stats = [t \in Tenants |-> NoStats]
    /\ payments \in {PaidLedger, Tail(PaidLedger)}
    /\ now \in PaymentValidDays..MaxNow
    /\ user_sender = TRUE
    /\ accessible = <<10, 20, 30>>
    /\ world = [chat_id \in Chats |-> "sent"]
    /\ delivery_ready \in ReadySets
    /\ deciding = [admin_id \in Admins |-> <<>>]
    /\ handler_registered = FALSE
    /\ states = <<>>
    /\ finalizing = <<>>
    /\ heard = [sender_id \in Senders |-> <<>>]
    /\ left = Budget(StartOps, 1, 0)

NextStart ==
    \/ \E c \in Callers, t \in Tenants : CbAutoStart(c, t)
    \/ \E c \in Callers : AutoStartResume(c)
    \/ \E k \in TaskIds : RunGetAuto(k)
    \/ \E k \in TaskIds : RunPayments(k)
    \/ \E k \in TaskIds : RunResolve(k)
    \/ \E k \in TaskIds : RunDisable(k)
    \/ \E k \in TaskIds : RunSend(k)
    \/ \E k \in TaskIds : RunUpdateStats(k)
    \/ \E k \in TaskIds : RunWaitEnter(k)
    \/ \E t \in Tenants : SetConfig(t)
    \/ Tick

SpecStart == InitStart /\ [][NextStart]_vars

\* the dialogs by themselves: a new database, the responder not yet
\* started, senders writing to the user account
InitDialog ==
    /\ InitScheduler
    /\ InitFront
    /\ auto = [t \in Tenants |-> [Runnable EXCEPT !.is_enabled = (t = 1)]]
    /\ stats = [t \in Tenants |-> NoStats]
    /\ payments = <<>>
    /\ now = 0
    /\ user_sender = TRUE
    /\ accessible = <<10, 20, 30>>
    /\ world = [chat_id \in Chats |-> "sent"]
    /\ left = Budget(0, DialogEnv, 0)

NextDialog ==
    \/ DialogStart
    \/ DialogStop
    \/ \E sender_id \in Senders, raw_text \in Texts : HandleNewMessage(sender_id, raw_text)
    \/ \E i \in 1..DialogEnv : FinalizePayment(i)
    \/ \E i \in 1..DialogEnv : FinalizeFails(i)

SpecDialog == InitDialog /\ [][NextDialog]_vars

\* ------------------------------------------------------------ the claims
\* steps of a caller, told from its frame before and after the step

\* stop_user returns to caller c, who does not go on to start a loop
StopReturned(c) ==
    \/ /\ caller[c].pc = "await"
       /\ caller[c].then = "return"
       /\ caller'[c].pc = "returned"
    \/ /\ caller[c].pc \in {"idle", "returned", "raised"}
       /\ caller'[c] # caller[c]
       /\ caller'[c].op = "stop"
       /\ caller'[c].pc = "returned"
    \/ /\ caller[c].pc \in {"r_get_auto", "r_disable"}
       /\ caller'[c].pc = "returned"
    \/ /\ caller[c].pc = "r_get_auto2"
       /\ ~auto[caller[c].user_id].is_enabled
       /\ caller'[c].pc = "returned"

\* stop_user returns to caller c, who calls _start_task_for_user at once
\* (lines 55-56)
Restarted(c) ==
    \/ /\ caller[c].pc = "await"
       /\ caller[c].then = "start"
       /\ caller'[c].pc = "returned"
    \/ /\ caller[c].pc = "r_get_auto2"
       /\ auto[caller[c].user_id].is_enabled
       /\ caller'[c].pc = "returned"

\* caller c calls _start_task_for_user as an operation of its own
StartCalled(c) ==
    /\ caller[c].pc \in {"idle", "returned", "raised"}
    /\ caller'[c] # caller[c]
    /\ caller'[c].op = "start"

\* refresh_user returns to caller c
RefreshReturned(c) ==
    /\ caller[c].op = "refresh"
    /\ caller[c].pc \notin {"idle", "returned", "raised"}
    /\ caller'[c].pc = "returned"

\* C1 (P1, mutual exclusion): in every reachable state every tenant has at
\* most one live loop task, and a live loop is the one the registry holds,
\* whatever the interleaving of start, refresh and stop calls.
MutualExclusion ==
    \A t \in Tenants :
        /\ Cardinality(LiveLoops(t)) <= 1
        /\ \A k \in LiveLoops(t) : t \in DOMAIN tasks /\ tasks[t] = k

\* C1 witness: two handlers have both completed a start for the same
\* tenant, and one loop is live.
MutualExclusionSeen ==
    \E t \in Tenants : \E c, d \in Callers :
        /\ c # d
        /\ caller[c].op = "start" /\ caller[c].pc = "returned" /\ caller[c].user_id = t
        /\ caller[d].op \in {"start", "refresh"} /\ caller[d].pc = "returned"
        /\ caller[d].user_id = t
        /\ Cardinality(LiveLoops(t)) = 1

\* C2 (P2, drain guarantee): whenever stop_user returns, the task it
\* observed is done and neither dict holds it any more; and a
\* _start_task_for_user made right after the return leaves a live
\* registered task that is not the drained one, a task it creates itself
\* when no other caller has registered one in between.
DrainGuarantee ==
    [][\A c \in Callers :
        LET t == caller'[c].user_id
            observed == caller'[c].task
        IN  /\ (StopReturned(c) \/ Restarted(c)) =>
                 \A k \in observed :
                    /\ DoneFrame(run'[k])
                    /\ t \in DOMAIN tasks' => tasks'[t] # k
                    /\ t \in DOMAIN stop_events' => stop_events'[t] # k
            /\ Restarted(c) =>
                 /\ t \in DOMAIN tasks'
                 /\ LiveFrame(run'[tasks'[t]])
                 /\ tasks'[t] \notin observed
                 /\ t \notin DOMAIN tasks =>
                      /\ tasks'[t] = nextTask
                      /\ nextTask' = nextTask + 1
                      /\ run'[nextTask].pc = "get_auto"
                      /\ caller'[c].made = {nextTask}
    ]_vars

\* C2 witness: a refresh has drained a loop it observed and started a
\* new one.
DrainGuaranteeSeen ==
    \E c \in Callers :
        /\ caller[c].op = "refresh" /\ caller[c].pc = "returned"
        /\ caller[c].task # {}
        /\ caller[c].made # {}
        /\ \A k \in caller[c].made : LiveTask(k)

\* C3 (P3, eligibility enforcement): when refresh_user(t) returns for a
\* campaign that was not runnable when it was called and is not runnable
\* when it returns, t has no live loop; in both delivery modes.
RefreshEnforcesEligibility ==
    [][\A c \in Callers :
        LET t == caller[c].user_id IN
        (/\ RefreshReturned(c)
         /\ caller[c].unfit
         /\ IneligibleIn(auto'[t], paid', accessible', t))
            => LiveLoopsIn(run', t) = {}
    ]_vars

\* the chats of a fan-out history, in order
LogChats(log) == [i \in 1..Len(log) |-> log[i][1]]

\* the entries of a fan-out history whose delivery raised, as error
\* entries, in order
RECURSIVE LogErrors(_)
LogErrors(log) ==
    IF log = <<>> THEN <<>>
    ELSE IF Head(log)[2] = "sent" THEN LogErrors(Tail(log))
         ELSE <<(<<Head(log)[2], Head(log)[1]>>)>> \o LogErrors(Tail(log))

\* C4 (P4, fan-out isolation): in every cycle the deliveries attempted so
\* far are the resolved destinations in list order, whatever their
\* outcomes; when the fan-out is over every destination was attempted,
\* success + number of error entries = number of destinations, and every
\* failed destination has exactly one error entry, which names it.
FanoutIsolation ==
    \A k \in TaskIds :
        LET f == run[k] IN
        /\ f.pc \in {"send", "update_stats"} =>
             /\ f.idx <= Len(f.targets) + 1
             /\ LogChats(f.log) = SubSeq(f.targets, 1, f.idx - 1)
             /\ f.errors = LogErrors(f.log)
             /\ f.success + Len(f.errors) = Len(f.log)
        /\ f.pc = "send" => f.idx <= Len(f.targets)
        /\ f.pc = "update_stats" =>
             /\ LogChats(f.log) = f.targets
             /\ f.success + Len(f.errors) = Len(f.targets)
             /\ \A i \in 1..Len(f.log) :
                  f.log[i][2] # "sent" =>
                     Cardinality({j \in 1..Len(f.errors) :
                                     f.errors[j][2] = f.log[i][1]}) = 1

\* C4 witness: destinations 10, 20, 30 with 20 rejecting: the fan-out ends
\* with success 2 and one error entry, for 20.
FanoutIsolationSeen ==
    \E k \in TaskIds :
        /\ run[k].pc = "update_stats"
        /\ run[k].targets = <<10, 20, 30>>
        /\ run[k].success = 2
        /\ run[k].errors = << <<"unavailable", 20>> >>

\* C5 (cancellation during fan-out): once stop_user has set the event of a
\* loop that is in its fan-out, every further step of the loop attempts
\* the present destination (again, after a lost connection) or moves to
\* the next one until all are attempted, then update_stats is
\* called once (the only write of the tenant's stats), then wait_for ends
\* the loop at once: no wait, no timer, no further cycle.  With the Store
\* answering, the loop does end.
CancelDuringFanout ==
    /\ [][\A k \in TaskIds :
            LET f == run[k]
                g == run'[k]
                t == f.user_id
            IN  (event_set[k] /\ f.pc \in {"send", "update_stats", "wait_enter"}) =>
                  /\ (f.pc = "send" /\ g # f) =>
                        \/ /\ g.pc = IF f.idx = Len(f.targets) THEN "update_stats" ELSE "send"
                           /\ g.idx = f.idx + 1
                           /\ Len(g.log) = Len(f.log) + 1
                           /\ g.log[f.idx][1] = f.targets[f.idx]
                        \/ /\ g.pc = "send"
                           /\ g.idx = f.idx
                           /\ g.tries = f.tries + 1
                           /\ g.tries < RetryAttempts
                  /\ (f.pc = "update_stats" /\ g # f) =>
                        \/ /\ g.pc = "wait_enter"
                           /\ stats'[t].sent_total = stats[t].sent_total + f.success
                           /\ stats'[t].last_error = JoinErrors(f.errors)
                        \/ g.pc = "failed" /\ stats' = stats
                  /\ (f.pc = "wait_enter" /\ g # f) =>
                        /\ g.pc = "done"
                        /\ t \in DOMAIN tasks' => tasks'[t] # k
                        /\ left'.timeouts = left.timeouts
                  /\ f.pc # "update_stats" => stats'[t] = stats[t]
                  /\ (g.pc \in {"send", "update_stats", "wait_enter"}) => event_set'[k]
       ]_vars
    /\ \A k \in TaskIds :
          (event_set[k] /\ run[k].pc = "send") ~> DoneFrame(run[k])

\* C5 witness: a caller is inside stop_user awaiting a loop whose event it
\* set, and the loop is in the middle of its fan-out.
CancelDuringFanoutSeen ==
    \E k \in TaskIds, c \in Callers :
        /\ event_set[k]
        /\ run[k].pc = "send"
        /\ run[k].idx = 2
        /\ caller[c].pc = "await"
        /\ caller[c].task = {k}

\* C6 (exception containment): no loop task ends with an exception that
\* leaves its campaign enabled in the Store with no live loop.
ExceptionContained ==
    \A k \in TaskIds :
        run[k].pc = "failed" =>
            \/ ~auto[run[k].user_id].is_enabled
            \/ LiveLoops(run[k].user_id) # {}

\* C7 (P5, self-termination): a loop that reads is_enabled = false at its
\* enabled check ends there, with nothing delivered after the check and
\* its registry entries removed, and a finished loop does nothing more;
\* and a live loop whose campaign is disabled does reach that end without
\* any stop_user, as long as timers fire and the campaign stays disabled.
SelfTermination ==
    /\ [][\A k \in TaskIds :
            LET t == run[k].user_id IN
            /\ (run[k].pc = "get_auto" /\ run'[k] # run[k] /\ ~auto[t].is_enabled) =>
                  /\ DoneFrame(run'[k])
                  /\ t \in DOMAIN tasks' => tasks'[t] # k
                  /\ t \in DOMAIN stop_events' => stop_events'[t] # k
                  /\ stats' = stats
            /\ DoneFrame(run[k]) => run'[k] = run[k]
       ]_vars
    /\ \A k \in TaskIds :
          (LiveTask(k) /\ ~auto[run[k].user_id].is_enabled)
             ~> \/ DoneFrame(run[k])
                \/ LiveTask(k) /\ auto[run[k].user_id].is_enabled
                \/ run[k].pc = "waiting" /\ left.timeouts = 0

\* C7 witness: a loop that completed a cycle has ended although no
\* stop_user or refresh_user was ever called, its event was never set and
\* the payments are valid: the front-end had switched the campaign off.
SelfTerminationSeen ==
    \E k \in TaskIds :
        /\ run[k].pc = "done"
        /\ ~auto[run[k].user_id].is_enabled
        /\ stats[run[k].user_id].sent_total > 0
        /\ paid = Tenants
        /\ ~event_set[k]
        /\ \A c \in Callers : caller[c].op \in {"idle", "start"}
        /\ run[k].user_id \notin DOMAIN tasks

\* C8 (P6, idempotent start): a call of _start_task_for_user(t) made while
\* the registered task of t is live changes nothing: the dicts, the tasks
\* and the events stay as they are and t has exactly that one loop.
IdempotentStart ==
    [][\A c \in Callers :
        LET t == caller'[c].user_id IN
        ((StartCalled(c) \/ Restarted(c)) /\ t \in DOMAIN tasks /\ LiveTask(tasks[t]))
            => /\ UNCHANGED <<tasks, stop_events, run, nextTask>>
               /\ LiveLoopsIn(run', t) = {tasks[t]}
               /\ stop_events[t] = tasks[t]
    ]_vars

\* C8 witness: one handler's start created the loop, another handler's
\* start for the same tenant found it live and did nothing.
IdempotentStartSeen ==
    \E c, d \in Callers :
        /\ c # d
        /\ caller[c].op = "start" /\ caller[c].pc = "returned" /\ caller[c].made # {}
        /\ caller[d].op = "start" /\ caller[d].pc = "returned" /\ caller[d].made = {}
        /\ caller[d].user_id = caller[c].user_id
        /\ caller[c].user_id \in DOMAIN tasks
        /\ tasks[caller[c].user_id] \in caller[c].made
        /\ LiveTask(tasks[caller[c].user_id])

\* C9: at the moment stop_user(t) returns no live loop exists for t and
\* neither dict has an entry for t, under every interleaving with other
\* callers.
StopLeavesNothing ==
    [][\A c \in Callers :
        StopReturned(c) =>
            LET t == caller'[c].user_id IN
            /\ LiveLoopsIn(run', t) = {}
            /\ t \notin DOMAIN tasks'
            /\ t \notin DOMAIN stop_events'
    ]_vars

\* C10: when refresh_user returns from line 56, the tenant has exactly one
\* live loop, the registered one; every task stop_user observed is done
\* and older than it; and it was created after refresh_user was called, so
\* that its first cycle reads the Store after the refresh began.
RefreshRestarts ==
    [][\A c \in Callers :
        Restarted(c) =>
            LET t == caller'[c].user_id IN
            /\ t \in DOMAIN tasks' /\ t \in DOMAIN stop_events'
            /\ LiveLoopsIn(run', t) = {tasks'[t]}
            /\ stop_events'[t] = tasks'[t]
            /\ \A k \in caller'[c].task : DoneFrame(run'[k]) /\ k < tasks'[t]
            /\ tasks'[t] >= caller[c].seen
            /\ caller'[c].made # {} => run'[tasks'[t]].pc = "get_auto"
    ]_vars

\* C10 witness: two refresh calls for one tenant have both returned, one
\* of them after draining a loop, and exactly one loop is live.
RefreshRestartsSeen ==
    \E c, d \in Callers :
        /\ c # d
        /\ caller[c].op = "refresh" /\ caller[c].pc = "returned"
        /\ caller[d].op = "refresh" /\ caller[d].pc = "returned"
        /\ caller[c].user_id = caller[d].user_id
        /\ caller[c].task # {}
        /\ caller[c].made \cup caller[d].made # {}
        /\ Cardinality(LiveLoops(caller[c].user_id)) = 1

\* both authorizations of tenant t are valid now
Ready(t) == PaymentsReady(HasRecentPaymentForUser(paid, t), HasRecentPayment(paid))

\* no caller has used stop_user or refresh_user
OnlyStarts == \A c \in Callers : caller[c].op \in {"idle", "start"}

\* C11 (authorization gate): the fan-out of a cycle is entered only from
\* the gate of that cycle, after the campaign was read as enabled and both
\* authorizations were found valid, with nothing delivered before; when an
\* authorization is not valid the loop goes to set_auto_enabled(False)
\* with nothing delivered, and once that call returns the campaign is
\* disabled, no stats are written and the loop has ended and left the
\* registry.
AuthorizationGate ==
    [][\A k \in TaskIds :
        LET f == run[k]
            g == run'[k]
            t == f.user_id
        IN  /\ (g.pc = "send" /\ f.pc # "send") =>
                  /\ f.pc \in {"payments", "resolve"}
                  /\ f.auto.is_enabled
                  /\ f.log = <<>> /\ g.log = <<>>
            /\ (g.pc = "resolve" /\ f.pc # "resolve") => f.pc = "payments"
            /\ (g.pc = "payments" /\ f.pc # "payments") =>
                  /\ f.pc = "get_auto"
                  /\ auto[t].is_enabled
                  /\ g.auto = auto[t]
            /\ (f.pc = "payments" /\ g # f) =>
                  IF Ready(t)
                  THEN g.pc \in {"resolve", "send", "disable", "failed"}
                  ELSE g.pc \in {"disable", "failed"} /\ g.log = <<>>
            /\ (f.pc = "disable" /\ g # f /\ f.log = <<>>) =>
                  \/ /\ g.pc = "done"
                     /\ ~auto'[t].is_enabled
                     /\ stats' = stats
                     /\ g.log = <<>>
                     /\ t \in DOMAIN tasks' => tasks'[t] # k
                  \/ g.pc = "failed"
    ]_vars

\* C11 witness: a loop that had delivered in an earlier cycle found the
\* tenant's payment expired, disabled the campaign and ended; nobody
\* called stop_user or refresh_user.
AuthorizationGateSeen ==
    \E k \in TaskIds :
        /\ run[k].pc = "done"
        /\ run[k].user_id = 1
        /\ 1 \notin paid
        /\ ~auto[1].is_enabled
        /\ stats[1].sent_total > 0
        /\ OnlyStarts

\* C12 (ConfigInvalid self-healing): a cycle whose message is empty, whose
\* resolved destination list is empty or whose interval is not positive
\* never enters the fan-out: the loop goes to set_auto_enabled(False)
\* with no delivery attempted, and when that call returns the campaign is
\* disabled, the stats are untouched and the loop has ended.
ConfigSelfHealing ==
    [][\A k \in TaskIds :
        LET f == run[k]
            g == run'[k]
            t == f.user_id
            invalid == \/ f.auto.message = ""
                       \/ g.targets = <<>>
                       \/ f.auto.interval_minutes <= 0
        IN  /\ (g.pc = "send" /\ f.pc # "send") => ~invalid
            /\ (f.pc = "resolve" /\ g # f /\ g.pc # "failed") =>
                  g.pc = IF invalid THEN "disable" ELSE "send"
            /\ (f.pc = "payments" /\ g.pc \notin {"payments", "resolve", "failed"}) =>
                  g.pc = IF ~Ready(t) \/ invalid THEN "disable" ELSE "send"
            /\ (g.pc = "disable" /\ f.pc # "disable") =>
                  /\ g.log = <<>>
                  /\ auto' = auto /\ stats' = stats
            /\ (f.pc = "disable" /\ g # f /\ f.log = <<>>) =>
                  \/ /\ g.pc = "done"
                     /\ ~auto'[t].is_enabled
                     /\ stats' = stats
                     /\ t \in DOMAIN tasks' => tasks'[t] # k
                  \/ g.pc = "failed" /\ stats' = stats
    ]_vars

\* C12 witness: the message was cleared while the loop was running; the
\* loop, which had delivered before, disabled the campaign and ended.
ConfigSelfHealingSeen ==
    \E k \in TaskIds :
        /\ run[k].pc = "done"
        /\ run[k].user_id = 1
        /\ auto[1].message = ""
        /\ ~auto[1].is_enabled
        /\ stats[1].sent_total = Len(auto[1].target_chat_ids)
        /\ stats[1].sent_total > 0
        /\ paid = Tenants
        /\ OnlyStarts

\* C13 (delivery failures never disable or abort): every step of the
\* fan-out, whatever the delivery did, leaves the campaign as it is in the
\* Store and stays in the fan-out or reaches update_stats; update_stats,
\* when the Store answers, leads to the interval wait with the campaign
\* still untouched.
DeliveryFailuresContained ==
    [][\A k \in TaskIds :
        LET f == run[k]
            g == run'[k]
        IN  /\ (f.pc = "send" /\ g # f) =>
                  /\ g.pc \in {"send", "update_stats"}
                  /\ auto' = auto
                  /\ g.pc = "update_stats" <=>
                        (Len(g.log) = Len(f.targets) /\ g.idx = Len(f.targets) + 1)
            /\ (f.pc = "update_stats" /\ g # f) =>
                  \/ g.pc = "wait_enter" /\ auto' = auto
                  \/ g.pc = "failed"
            /\ (f.pc = "wait_enter" /\ g # f) =>
                  /\ auto' = auto
                  /\ IF event_set[k] THEN g.pc = "done" ELSE g.pc = "waiting"
    ]_vars

\* C13 witness: every delivery of a cycle failed, the stats recorded the
\* three failures and no success, and the loop is in its interval wait
\* with the campaign still enabled.
DeliveryFailuresContainedSeen ==
    \E k \in TaskIds :
        /\ run[k].pc = "waiting"
        /\ run[k].user_id = 1
        /\ Len(run[k].errors) = 3
        /\ run[k].success = 0
        /\ stats[1].sent_total = 0
        /\ Len(stats[1].last_error) = 5
        /\ auto[1].is_enabled

\* C14 (stats persistence): the stats of a tenant are written only by the
\* update_stats step that follows a completed fan-out of its loop, once
\* per fan-out; the step adds the cycle's success count to the total
\* (which never decreases), sets the timestamp, and stores the error
\* entries in order separated by newlines, or nothing when there is none;
\* other tenants' stats are untouched.
StatsPersistence ==
    [][/\ \A t \in Tenants :
            stats'[t] # stats[t] =>
                \E k \in TaskIds :
                    /\ run[k].user_id = t
                    /\ run[k].pc = "update_stats"
                    /\ run'[k].pc = "wait_enter"
       /\ \A k \in TaskIds :
            LET f == run[k]
                g == run'[k]
                t == f.user_id
                n == Len(f.errors)
            IN  /\ (g.pc = "update_stats" /\ f.pc # "update_stats") =>
                      /\ f.pc = "send"
                      /\ Len(g.log) = Len(g.targets)
                /\ (f.pc = "update_stats" /\ g # f) =>
                      \/ g.pc = "failed" /\ stats' = stats
                      \/ /\ g.pc = "wait_enter"
                         /\ stats'[t].sent_total = stats[t].sent_total + f.success
                         /\ stats'[t].sent_total >= stats[t].sent_total
                         /\ stats'[t].last_sent_at = "utcnow"
                         /\ Len(stats'[t].last_error) = IF n = 0 THEN 0 ELSE 2 * n - 1
                         /\ \A i \in 1..n : stats'[t].last_error[2 * i - 1] = f.errors[i]
                         /\ \A i \in 1..(n - 1) : stats'[t].last_error[2 * i] = Newline
                         /\ \A u \in Tenants \ {t} : stats'[u] = stats[u]
                /\ (f.pc = "wait_enter" /\ g # f) => g.pc # "update_stats"
    ]_vars

\* C14 witness: after a healthy cycle (3 successes) and a cycle in which
\* chat 20 was unavailable (2 successes), the total is 5 and the summary
\* holds the one entry for 20.
StatsPersistenceSeen ==
    stats[1] = [sent_total |-> 5, last_sent_at |-> "utcnow",
                last_error |-> << <<"unavailable", 20>> >>]

\* C15 (no retries within a cycle): in a cycle no destination gets more
\* than one call of the client's send_message.
NoRetries ==
    \A k \in TaskIds :
        /\ run[k].tries <= 1
        /\ \A i \in 1..Len(run[k].log) : run[k].log[i][3] <= 1

\* the loop of task k has resolved its targets in this step, with
\* list_accessible_chats answering if it was called
Resolved(k) ==
    /\ run[k].pc \in {"payments", "resolve"}
    /\ run'[k].pc \in {"send", "disable"}
    /\ run[k].pc = "payments" => Ready(run[k].user_id)
    /\ run[k].pc = "resolve" => personal_chats' = accessible

\* C16 (reachability filter before every cycle): the targets a cycle
\* resolves, to which it then delivers, are all reachable by the active
\* sender at the time of the resolution.
ResolvedAreReachable ==
    [][\A k \in TaskIds :
        Resolved(k) =>
            Range(run'[k].targets) \subseteq Range(ReachableIn(run[k].auto, accessible))
    ]_vars

\* C17 (default destination set): through the user session
\* _resolve_targets returns all currently reachable chats for an empty
\* configured list and the configured targets that are reachable, in
\* configured order, otherwise; for the bot an empty configured list
\* resolves to an empty list and the loop disables the campaign.
DefaultDestinations ==
    [][\A k \in TaskIds :
        LET a == run[k].auto IN
        Resolved(k) =>
            /\ (user_sender /\ a.target_chat_ids = <<>>) =>
                    run'[k].targets = accessible
            /\ (user_sender /\ a.target_chat_ids # <<>>) =>
                    run'[k].targets = Filter(a.target_chat_ids, Range(accessible))
            /\ (~user_sender /\ a.target_chat_ids = <<>>) =>
                    run'[k].targets = <<>> /\ run'[k].pc = "disable"
    ]_vars

\* start_if_enabled returns to caller c
BootReturned(c) ==
    /\ caller[c].outer = "refresh_all"
    /\ caller[c].pc \notin {"idle", "returned", "raised"}
    /\ caller'[c].pc = "returned"
    /\ caller'[c].todo = <<>>

\* stop_all returns to caller c
StopAllReturned(c) ==
    /\ caller'[c].outer = "stop_all"
    /\ caller'[c].pc = "returned"
    /\ caller'[c].todo = <<>>
    /\ caller'[c] # caller[c]

\* C18 (boot reconciliation): when start_if_enabled returns and nothing
\* else has used the scheduler, every campaign that was persisted enabled
\* and is eligible is still enabled and has exactly one live loop, and
\* every campaign that was persisted enabled with invalid authorization
\* or invalid configuration (no message, no destination left, interval
\* not positive) is persisted disabled and has no live loop.
BootReconciles ==
    [][\A c \in Callers :
        (BootReturned(c) /\ \A d \in Callers \ {c} : caller[d].op = "idle") =>
            \A t \in caller[c].on :
                IF IneligibleIn([auto[t] EXCEPT !.is_enabled = TRUE], paid, accessible, t)
                THEN /\ ~auto'[t].is_enabled
                     /\ LiveLoopsIn(run', t) = {}
                ELSE /\ auto'[t].is_enabled
                     /\ Cardinality(LiveLoopsIn(run', t)) = 1
    ]_vars

\* C19 (stop_all drains everything): when stop_all returns no tenant has
\* a live loop and both dicts are empty, whatever other callers and the
\* loops did while it was iterating.
StopAllDrains ==
    [][\A c \in Callers :
        StopAllReturned(c) =>
            /\ \A t \in Tenants : LiveLoopsIn(run', t) = {}
            /\ DOMAIN tasks' = {}
            /\ DOMAIN stop_events' = {}
    ]_vars

\* C20: while a campaign is disabled and its tenant's authorization has
\* expired, no loop begins a cycle for the tenant and refresh_user starts
\* no loop for it.
NoLoopAfterLapse ==
    [][/\ \A k \in TaskIds :
            (run[k].pc = "get_auto" /\ run'[k].pc = "payments") =>
                auto[run[k].user_id].is_enabled
       /\ \A c \in Callers :
            LET t == caller[c].user_id IN
            (/\ caller[c].op = "refresh"
             /\ caller[c].pc \in {"r_get_auto2", "await"}
             /\ caller'[c].made # {})
                => (auto[t].is_enabled \/ t \in paid)
    ]_vars

\* C21 (no stale handle): in every reachable state neither _tasks nor
\* _stop_events holds a task that has finished, however the task ended:
\* the entry and the event of a loop are gone in the state in which the
\* loop is done.
NoStaleHandle ==
    /\ \A t \in DOMAIN tasks : ~Done(tasks[t])
    /\ \A t \in DOMAIN stop_events : ~Done(stop_events[t])
    /\ \A k \in TaskIds :
         Done(k) => k \notin Range(tasks) \cup Range(stop_events)

\* a loop has ended by itself or by cancellation and another one by an
\* exception
NoStaleHandleSeen ==
    /\ \E k \in TaskIds : run[k].pc = "done"
    /\ \E k \in TaskIds : run[k].pc = "failed"

\* the step finishes loop task k
Finishes(k) == LiveTask(k) /\ DoneFrame(run'[k])

\* C28 (registry consistency): a tenant is in _tasks iff it is in
\* _stop_events, the registered event is the one that was made with the
\* registered task, which is a loop of that tenant; a caller that awaits
\* a task has set the event that task waits on; and a finishing loop pops
\* its own entry, never the entry of another task.
RegistryConsistent ==
    [][/\ DOMAIN tasks' = DOMAIN stop_events'
       /\ \A t \in DOMAIN tasks' :
            /\ stop_events'[t] = tasks'[t]
            /\ run'[tasks'[t]].user_id = t
       /\ \A c \in Callers :
            (caller[c].pc # "await" /\ caller'[c].pc = "await") =>
                \A k \in caller'[c].task :
                    /\ event_set'[k]
                    /\ tasks'[caller'[c].user_id] = k
       /\ \A k \in TaskIds :
            Finishes(k) =>
                /\ run[k].user_id \in DOMAIN tasks
                /\ tasks[run[k].user_id] = k
                /\ stop_events[run[k].user_id] = k
    ]_vars

\* a second loop of a tenant is registered after the first one finished,
\* and has finished as well
RegistryConsistentSeen ==
    \E j, k \in TaskIds :
        /\ j < k
        /\ run[j].user_id = run[k].user_id
        /\ Done(j) /\ Done(k)

\* the step is taken for tenant a: by a loop of a, or by stop_user,
\* refresh_user or _start_task_for_user called for a
ActsFor(a) ==
    \/ \E k \in TaskIds : run[k].user_id = a /\ run'[k] # run[k]
    \/ \E c \in Callers :
         /\ caller'[c] # caller[c]
         /\ caller'[c].user_id = a
         /\ caller'[c].op \in {"start", "stop", "refresh"}

\* C29 (cross-tenant isolation): a step taken for tenant a leaves the
\* registry entry, the stop event and its flag, the frames and so the
\* liveness of the loops, and the persisted enabled flag of every other
\* tenant b as they were.
CrossTenantIsolation ==
    [][\A a \in Tenants : \A b \in Tenants \ {a} :
        ActsFor(a) =>
            /\ (b \in DOMAIN tasks') = (b \in DOMAIN tasks)
            /\ b \in DOMAIN tasks => tasks'[b] = tasks[b]
            /\ (b \in DOMAIN stop_events') = (b \in DOMAIN stop_events)
            /\ b \in DOMAIN stop_events => stop_events'[b] = stop_events[b]
            /\ \A k \in TaskIds :
                 run[k].user_id = b =>
                    run'[k] = run[k] /\ event_set'[k] = event_set[k]
            /\ LiveLoopsIn(run', b) = LiveLoops(b)
            /\ auto'[b].is_enabled = auto[b].is_enabled
    ]_vars

\* the loop of one tenant has ended while the other tenant has a
\* registered live loop
CrossTenantIsolationSeen ==
    \E a \in Tenants : \E b \in Tenants \ {a} :
        /\ \E k \in TaskIds : Done(k) /\ run[k].user_id = a
        /\ b \in DOMAIN tasks
        /\ LiveLoops(b) # {}

\* campaign a has an empty message, an empty target list or an interval
\* that is not positive
InvalidCampaign(a) ==
    a.message = "" \/ a.target_chat_ids = <<>> \/ a.interval_minutes <= 0

\* C23 (frame and effect of Storage.ensure_constraints, which requires
\* targets): the campaign is disabled exactly when its message is empty,
\* its target list is empty or its interval is not positive; otherwise
\* nothing changes; enabled never becomes true, and message, interval,
\* targets, statistics and the other campaigns stay as they are.  Stated
\* of the function on every reachable Store and of the step of
\* refresh_user that calls it.
EnsureConstraintsFrame ==
    [][/\ \A t \in Tenants :
            EnsureConstraints(auto, t, TRUE) =
                [auto EXCEPT ![t].is_enabled = @ /\ ~InvalidCampaign(auto[t])]
       /\ \A c \in Callers :
            (caller[c].pc = "r_ensure" /\ caller'[c].pc = "r_get_auto2"
                                       /\ ~user_sender) =>
                /\ auto' = [auto EXCEPT ![caller[c].user_id].is_enabled =
                                @ /\ ~InvalidCampaign(auto[caller[c].user_id])]
                /\ stats' = stats
    ]_vars

\* refresh_user has called ensure_constraints for a campaign whose
\* targets were removed or whose interval was set to 0, and the campaign
\* is now disabled with everything else as it was written
EnsureConstraintsFrameSeen ==
    \E c \in Callers :
        /\ caller[c].pc = "r_get_auto2"
        /\ ~user_sender
        /\ auto[caller[c].user_id] \in
                {[Runnable EXCEPT !.is_enabled = FALSE, !.target_chat_ids = <<>>],
                 [Runnable EXCEPT !.is_enabled = FALSE, !.interval_minutes = 0]}

\* C22 (no dropped cancellation): while Store and Sender calls return, a
\* caller that stop_user has left awaiting a loop eventually gets its
\* call back, and a live loop whose stop event is set eventually
\* finishes, wherever the loop was when the event was set.
NoDroppedCancellation ==
    /\ \A c \in Callers :
         (caller[c].pc = "await") ~> (caller[c].pc = "returned")
    /\ \A k \in TaskIds :
         (LiveTask(k) /\ event_set[k]) ~> Done(k)

\* a caller awaits a loop whose event is set while the loop is at the top
\* of a cycle it entered because the interval timeout fired
NoDroppedCancellationSeen ==
    \E c \in Callers, k \in TaskIds :
        /\ caller[c].pc = "await"
        /\ k \in caller[c].task
        /\ event_set[k]
        /\ run[k].pc = "get_auto"
        /\ left.timeouts < CycleTimeouts

\* loop k is in a cycle before its fan-out (lines 85-96) / in its fan-out
BeforeFanout(k) == run[k].pc \in {"get_auto", "payments", "resolve"}

FanningOut(k) == run[k].pc = "send"

\* C26: once the stop event of a live loop is set, the loop does not
\* start two fan-outs: from no such state does it go from the head of a
\* cycle to sending, and later again from the head of a cycle to sending.
AtMostOneFanoutAfterStop ==
    \A k \in TaskIds :
        [](LiveTask(k) /\ event_set[k] =>
            ~<>(BeforeFanout(k) /\ <>(FanningOut(k)
                    /\ <>(BeforeFanout(k) /\ <>FanningOut(k)))))

\* the event of a loop is set, a caller awaits the loop, and the loop has
\* begun a fan-out after an interval timeout
AtMostOneFanoutAfterStopSeen ==
    \E c \in Callers, k \in TaskIds :
        /\ caller[c].pc = "await"
        /\ k \in caller[c].task
        /\ event_set[k]
        /\ run[k].pc = "send"
        /\ run[k].log = <<>>
        /\ left.timeouts < CycleTimeouts

\* loop task k starts a fan-out in this step (line 98)
StartsFanout(k) == run[k].pc \in {"payments", "resolve"} /\ run'[k].pc = "send"

\* loop task k was created by line 56 of a refresh_user call whose
\* stop_user (line 55) had stopped a loop
MadeByRefresh(k) ==
    \E c \in Callers :
        /\ caller[c].op = "refresh"
        /\ k \in caller[c].made
        /\ caller[c].task # {}

\* C27: two consecutive fan-outs of one tenant are separated by an
\* interval wait that ended by timeout, also across refresh_user: the
\* loop that refresh_user created in place of the one it stopped starts
\* a fan-out for a tenant whose previous fan-out is recorded only after
\* an interval timer has fired.
FanoutsSpaced ==
    [][\A k \in TaskIds :
        (/\ StartsFanout(k)
         /\ MadeByRefresh(k)
         /\ stats[run[k].user_id].last_sent_at # "None") =>
            left.timeouts < MaxTimeouts
    ]_vars

\* after the step some caller is inside a refresh_user for tenant t that
\* will go on to line 56 and start a loop
RestartPending(t) ==
    \E d \in Callers :
        /\ caller'[d].user_id = t
        /\ caller'[d].pc = "await"
        /\ caller'[d].then = "start"

\* C25 (no lost start): when _start_task_for_user returns for a tenant
\* whose persisted campaign is enabled and eligible, the tenant has a
\* live loop that has not been told to stop, or a restart is pending;
\* otherwise the loop ends at its next wait and, with no stop requested
\* after the start, the campaign stays enabled and eligible with no loop.
NoLostStart ==
    [][\A c \in Callers :
        LET t == caller'[c].user_id IN
        (/\ StartCalled(c)
         /\ caller'[c].pc = "returned"
         /\ ~IneligibleIn(auto'[t], paid', accessible', t)) =>
            \/ \E k \in LiveLoopsIn(run', t) : ~event_set'[k]
            \/ RestartPending(t)
    ]_vars

\* the approved rows of user u in table ledger
ApprovedOf(ledger, u) ==
    {i \in DOMAIN ledger : /\ ledger[i].user_id = u
                            /\ ledger[i].status = "approved"
                            /\ ledger[i].resolved_at # <<>>}

\* the most recently resolved approved payment of u was resolved within
\* the last N days before clock
LatestApprovedWithin(ledger, clock, u, N) ==
    \E i \in ApprovedOf(ledger, u) :
        /\ \A j \in ApprovedOf(ledger, u) :
                ledger[j].resolved_at[1] <= ledger[i].resolved_at[1]
        /\ ledger[i].resolved_at[1] >= clock - N

\* table ledger without its pending and declined rows
ApprovedRows(ledger) == SelectSeq(ledger, LAMBDA row : row.status = "approved")

\* the answers of has_recent_payment_for_user on ledger at time clock are
\* those the approved rows alone determine
FromApprovedOnly(ledger, clock) ==
    \A u \in Tenants, N \in 0..MaxNow :
        /\ RecentForUser(ledger, clock, u, N) = LatestApprovedWithin(ledger, clock, u, N)
        /\ RecentForUser(ledger, clock, u, N) =
                RecentForUser(ApprovedRows(ledger), clock, u, N)

\* C24: has_recent_payment_for_user(u, N) is true iff the most recently
\* resolved approved payment of u was resolved within the last N days;
\* the answer is the same on the table without its pending and declined
\* rows, and a step that files, declines or otherwise changes only rows
\* that are not approved, on the same day, changes no answer.
ValidityFromApproved ==
    [][/\ FromApprovedOnly(payments, now)
       /\ FromApprovedOnly(payments', now')
       /\ (now' = now /\ ApprovedRows(payments') = ApprovedRows(payments)) =>
            \A u \in Tenants, N \in 0..MaxNow :
                RecentForUser(payments', now', u, N) = RecentForUser(payments, now, u, N)
    ]_vars

\* a user has a valid approved payment and a request that was declined
\* later, and another user has only a declined and recent one
ValidityFromApprovedSeen ==
    \E i, j, k \in DOMAIN payments :
        /\ payments[i].user_id = payments[j].user_id
        /\ payments[i].status = "approved"
        /\ payments[j].status = "declined"
        /\ payments[j].resolved_at[1] > payments[i].resolved_at[1]
        /\ payments[i].user_id \in paid
        /\ payments[k].user_id \notin paid
        /\ payments[k].status = "declined"
        /\ payments[k].resolved_at[1] = now

\* every table of at most MaxPayments rows, reachable or not
Rows == [user_id : Tenants, status : Statuses,
         resolved_at : {<<>>} \cup {<<d>> : d \in 0..MaxNow}]

Ledgers == UNION {[1..n -> Rows] : n \in 0..MaxPayments}

\* C30 (dual authorization gate): _payments_ready(u) is true iff both
\* checks are true for the same window, and the system-level check is an
\* independent condition: for some table and instant the check of a
\* tenant passes and the system-level check fails.
DualGateIndependent ==
    /\ \A u \in Tenants :
         PaymentsReady(RecentForUser(payments, now, u, PaymentValidDays),
                       RecentForAnyone(payments, now, PaymentValidDays))
            = (/\ RecentForUser(payments, now, u, PaymentValidDays)
               /\ RecentForAnyone(payments, now, PaymentValidDays))
    /\ \E ledger \in Ledgers, clock \in 0..MaxNow, u \in Tenants :
         /\ RecentForUser(ledger, clock, u, PaymentValidDays)
         /\ ~RecentForAnyone(ledger, clock, PaymentValidDays)

\* C32 (a payment request is resolved at most once): through
\* cb_payment_decision the status of a request changes only from pending
\* to approved or declined, and once a request is approved or declined no
\* later or concurrent decision of another admin changes its status, its
\* resolution timestamp or its resolving admin.
ResolvedOnce ==
    [][\A request_id \in DOMAIN payments :
          /\ request_id \in DOMAIN payments'
          /\ LET old == payments[request_id]
                 new == payments'[request_id]
             IN  /\ old.status # "pending" =>
                        /\ new.status = old.status
                        /\ new.resolved_at = old.resolved_at
                        /\ new.resolved_by_admin_id = old.resolved_by_admin_id
                 /\ new.status # old.status =>
                        /\ old.status = "pending"
                        /\ new.status \in {"approved", "declined"}]_vars

\* the decision of one admin is still on its way when another admin has
\* resolved the same request the other way, on an earlier day
ResolvedOnceSeen ==
    \E admin_id \in Admins :
        /\ deciding[admin_id] # <<>>
        /\ LET d == deciding[admin_id][1]
               row == payments[d.request_id]
           IN  /\ row.status \in {"approved", "declined"}
               /\ row.status # Decided(d.action)
               /\ row.resolved_by_admin_id \notin {<<>>, <<admin_id>>}
               /\ row.resolved_at # <<now>>

\* one attempt of _run_with_reconnect is made for task k in this step
Attempt(k) ==
    /\ user_sender
    /\ run[k].pc = "send"
    /\ run'[k] # run[k]

\* the call of send_message for the current chat of frame f is over in
\* frame g, logged with outcome after calls invocations of the action
Over(f, g, outcome, calls) ==
    /\ g.log = Append(f.log, <<f.targets[f.idx], outcome, calls>>)
    /\ g.idx = f.idx + 1
    /\ g.tries = 0

\* C33 (_run_with_reconnect is bounded): the wrapped action is invoked at
\* most 3 times; the first attempt that succeeds ends the call with its
\* result; another attempt is made only after an attempt raised
\* ConnectionError; when the third attempt raises ConnectionError too the
\* call raises RuntimeError; any other exception ends the call on the
\* attempt where it occurred.
ReconnectBounded ==
    [][\A k \in TaskIds : Attempt(k) =>
          LET f == run[k]
              g == run'[k]
              raised == world[f.targets[f.idx]]
              calls == f.tries + 1
          IN  /\ calls <= 3
              /\ raised = "sent" => Over(f, g, "sent", calls)
              /\ g.tries = calls => raised = "disconnected"
              /\ (raised = "disconnected" /\ calls < 3) =>
                     /\ g.tries = calls
                     /\ g.idx = f.idx
                     /\ g.log = f.log
              /\ (raised = "disconnected" /\ calls = 3) => Over(f, g, "error", calls)
              /\ raised \in {"unavailable", "error"} => Over(f, g, raised, calls)
    ]_vars

\* C33 witness: within one cycle a delivery succeeded on its third
\* attempt, another raised RuntimeError after three ConnectionErrors and
\* a third failed otherwise on its first attempt.
ReconnectBoundedSeen ==
    \E k \in TaskIds :
        /\ \E i \in 1..Len(run[k].log) : run[k].log[i][2] = "sent" /\ run[k].log[i][3] = 3
        /\ \E i \in 1..Len(run[k].log) : run[k].log[i][2] = "error" /\ run[k].log[i][3] = 3
        /\ \E i \in 1..Len(run[k].log) : run[k].log[i][2] = "unavailable" /\ run[k].log[i][3] = 1

\* cb_auto_start has taken its decision for caller c in this step
AutoStartDecided(c) ==
    /\ caller[c].pc = "a_sync"
    /\ caller'[c].pc # "a_sync"

\* C31 (front-end start gating): cb_auto_start sets the enabled flag of
\* the campaign and requests a start only if, as read in that handler,
\* the message is non-empty, the selected targets are non-empty and all
\* delivery-ready, interval_minutes > 0 and both the user's and the
\* system's payment are valid; in every other case it leaves the enabled
\* flag and the scheduler's registry unchanged.
StartGating ==
    [][\A c \in Callers : AutoStartDecided(c) =>
          LET user_id == caller[c].user_id
              a == auto[user_id]
              fit == /\ a.message # ""
                     /\ a.target_chat_ids # <<>>
                     /\ Range(a.target_chat_ids) \subseteq delivery_ready'
                     /\ a.interval_minutes > 0
                     /\ RecentForUser(payments, now, user_id, PaymentValidDays)
                     /\ RecentForAnyone(payments, now, PaymentValidDays)
          IN  IF fit
              THEN /\ auto' = [auto EXCEPT ![user_id].is_enabled = TRUE]
                   /\ user_id \in DOMAIN tasks'
                   /\ LiveFrame(run'[tasks'[user_id]])
                   /\ ~event_set'[stop_events'[user_id]]
              ELSE UNCHANGED <<auto, regVars>>
    ]_vars

\* C31 witness: both callers have pressed the button, one for a campaign
\* that passed every check and was switched on with a new loop, the other
\* for a campaign that was refused and is still off without a loop.
StartGatingSeen ==
    \E c \in Callers : \E d \in Callers \ {c} :
        /\ caller[c].op = "auto_start" /\ caller[c].pc = "returned"
        /\ caller[c].made # {}
        /\ auto[caller[c].user_id].is_enabled
        /\ caller[d].op = "auto_start" /\ caller[d].pc = "returned"
        /\ caller[d].user_id # caller[c].user_id
        /\ ~auto[caller[d].user_id].is_enabled
        /\ caller[d].user_id \notin DOMAIN tasks
        /\ auto[caller[d].user_id].interval_minutes = 0

\* the digits of a text, in order
RECURSIVE Numerals(_)
Numerals(text) ==
    IF text = <<>> THEN <<>>
    ELSE IF Head(text) \in DigitChars THEN <<Head(text)>> \o Numerals(Tail(text))
         ELSE Numerals(Tail(text))

\* the text is the command /cancel in some spelling
Cancels(text) == Lower(Strip(text)) = CancelText

\* a message of sender_id is handled in this step
Heard(sender_id) == heard'[sender_id] # heard[sender_id]

\* the message handled in this step
Latest(sender_id) == heard'[sender_id][Len(heard'[sender_id])]

\* request r ends a dialog of history h: message i was the first and
\* was answered with the welcome text, message j held the 12 to 19 digits
\* of r, message k the name of r, and no /cancel and no new beginning
\* lies between them
EndsDialog(r, h, i, j, k) ==
    /\ i < j /\ j < k
    /\ h[i].action = "welcome"
    /\ \A m \in i..k : ~Cancels(h[m].text)
    /\ \A m \in (i + 1)..k : h[m].action # "welcome"
    /\ Len(Numerals(h[j].text)) \in 12..19
    /\ r.card_number = Numerals(h[j].text)
    /\ Len(Strip(h[k].text)) >= 3
    /\ r.card_name = Strip(h[k].text)

\* C34 as stated (a request is the end of a complete dialog, and the
\* dialog state of the sender is removed when the request is created):
\* in the step that creates a request the sender has sent a first
\* message, 12 to 19 digits and a name as above, the request carries them,
\* and the sender has no dialog state.
RequestRemovesState ==
    [][payments' # payments =>
          LET r == payments'[Len(payments')]
              h == heard[r.user_id]
          IN  /\ \E i \in DOMAIN h : \E j \in DOMAIN h : \E k \in DOMAIN h :
                    EndsDialog(r, h, i, j, k)
              /\ r.user_id \notin DOMAIN states'
    ]_vars

\* C34, amended (a request is the end of a complete dialog):
\* UserDialogResponder creates a payment request for a sender only after
\* that sender sent, in this order and with no /cancel in between, a
\* first message (answered with the welcome text and never read as data),
\* a message with 12 to 19 digits and a name of at least 3 characters;
\* the request carries exactly those digits and that name; the dialog
\* state of the sender is removed when the name is accepted, before the
\* request is created, so that at the creation the sender has no state or
\* one that a later message began.
RequestEndsDialog ==
    [][/\ \A s \in Senders :
            (Heard(s) /\ s \notin DOMAIN states /\ ~Cancels(Latest(s).text)) =>
                /\ Latest(s).action = "welcome"
                /\ states'[s] = DialogState("card_number", <<>>)
                /\ finalizing' = finalizing
                /\ payments' = payments
       /\ \A s \in Senders :
            (Heard(s) /\ finalizing' # finalizing) =>
                /\ s \notin DOMAIN states'
                /\ Latest(s).action = "complete"
       /\ payments' # payments =>
            /\ Len(payments') = Len(payments) + 1
            /\ LET r == payments'[Len(payments')]
                   h == heard[r.user_id]
               IN  /\ r.status = "pending"
                   /\ \E i \in DOMAIN h : \E j \in DOMAIN h : \E k \in DOMAIN h :
                        /\ EndsDialog(r, h, i, j, k)
                        /\ r.user_id \in DOMAIN states' =>
                               \E m \in (k + 1)..Len(h) : h[m].action = "welcome"
    ]_vars

\* C34 witness: a request with the 16 digits of a card number that was
\* sent in groups, after a number of 11 digits and a name of two letters
\* were turned down, and the sender has no dialog state left.
RequestEndsDialogSeen ==
    \E s \in Senders :
        /\ s \notin DOMAIN states
        /\ Len(payments) = 1
        /\ payments[1].user_id = s
        /\ payments[1].card_number = Rep("8", 4) \o Rep("6", 4) \o Rep("0", 4) \o Rep("1", 4)
        /\ payments[1].card_name = TextName
        /\ heard[s] = << [text |-> TextCardShort, action |-> "welcome"],
                         [text |-> TextCardShort, action |-> "invalid_card"],
                         [text |-> TextCardGroups, action |-> "ask_name"],
                         [text |-> TextShortName, action |-> "invalid_name"],
                         [text |-> TextName, action |-> "complete"] >>

\* the position of the last /cancel in history h, 0 when there is none
LastCancel(h) ==
    LET at == {m \in DOMAIN h : Cancels(h[m].text)}
    IN  IF at = {} THEN 0 ELSE CHOOSE m \in at : \A n \in at : n <= m

\* the card number card was sent in history h after the last /cancel
SentSinceCancel(h, card) ==
    \E j \in (LastCancel(h) + 1)..Len(h) : card = Numerals(h[j].text)

\* C35 (/cancel resets the dialog): a /cancel message, in any spelling,
\* from a sender in any dialog step removes that sender's state and
\* creates no payment request; the sender's next message is treated as a
\* first message (welcome, step card_number), and no card number entered
\* before the /cancel is used again.
CancelResets ==
    [][\A s \in Senders : Heard(s) =>
          /\ Cancels(Latest(s).text) =>
                /\ Latest(s).action = "cancel"
                /\ s \notin DOMAIN states'
                /\ payments' = payments
                /\ finalizing' = finalizing
          /\ (heard[s] # <<>> /\ Cancels(heard[s][Len(heard[s])].text)
                /\ ~Cancels(Latest(s).text)) =>
                /\ Latest(s).action = "welcome"
                /\ states'[s] = DialogState("card_number", <<>>)
                /\ finalizing' = finalizing
          /\ (s \in DOMAIN states' /\ states'[s].card_number # <<>>) =>
                SentSinceCancel(heard'[s], states'[s].card_number)
          /\ finalizing' # finalizing =>
                SentSinceCancel(heard'[s], finalizing'[Len(finalizing')].card_number)
    ]_vars

\* C35 witness: a sender who had entered a card number wrote " /CANCEL",
\* was welcomed again on the next message (a name, not taken as one) and
\* is now asked for the name with the second card number stored.
CancelResetsSeen ==
    \E s \in Senders :
        /\ heard[s] = << [text |-> TextHi, action |-> "welcome"],
                         [text |-> TextCard, action |-> "ask_name"],
                         [text |-> TextCancelCaps, action |-> "cancel"],
                         [text |-> TextName, action |-> "welcome"],
                         [text |-> TextCardGroups, action |-> "ask_name"] >>
        /\ s \in DOMAIN states
        /\ states[s] = DialogState("card_name",
                          Rep("8", 4) \o Rep("6", 4) \o Rep("0", 4) \o Rep("1", 4))
        /\ payments = <<>>
        /\ finalizing = <<>>

\* the dialog states of the senders other than s are what they were
OthersKeepState(s) ==
    \A r \in Senders \ {s} :
        /\ r \in DOMAIN states' <=> r \in DOMAIN states
        /\ r \in DOMAIN states => states'[r] = states[r]

\* C36 (invalid input leaves the dialog state unchanged): in step
\* card_number a message without 12 to 19 digits (other than /cancel)
\* keeps the sender in step card_number with no card number stored; in
\* step card_name a message shorter than 3 characters keeps the sender in
\* step card_name with the stored card number intact; and a message from
\* one sender never changes the dialog state of another sender.
InvalidInputKeepsState ==
    [][\A s \in Senders : Heard(s) =>
          LET text == Latest(s).text IN
          /\ OthersKeepState(s)
          /\ (s \in DOMAIN states /\ states[s].step = "card_number"
                /\ ~Cancels(text) /\ Len(Numerals(text)) \notin 12..19) =>
                /\ states' = states
                /\ states'[s] = DialogState("card_number", <<>>)
                /\ finalizing' = finalizing
                /\ payments' = payments
          /\ (s \in DOMAIN states /\ states[s].step = "card_name"
                /\ Len(Strip(text)) < 3) =>
                /\ states' = states
                /\ states'[s].step = "card_name"
                /\ Len(states'[s].card_number) \in 12..19
                /\ finalizing' = finalizing
                /\ payments' = payments
    ]_vars

\* C36 witness: one sender is asked for the name again after a name of
\* two letters was turned down, the card number still stored; the other
\* is still asked for the card number after 11 digits were turned down.
InvalidInputKeepsStateSeen ==
    \E s \in Senders : \E r \in Senders \ {s} :
        /\ heard[s] = << [text |-> TextHi, action |-> "welcome"],
                         [text |-> TextCard, action |-> "ask_name"],
                         [text |-> TextShortName, action |-> "invalid_name"] >>
        /\ s \in DOMAIN states
        /\ states[s] = DialogState("card_name", TextCard)
        /\ heard[r] = << [text |-> TextCardLong, action |-> "welcome"],
                         [text |-> TextCardShort, action |-> "invalid_card"] >>
        /\ r \in DOMAIN states
        /\ states[r] = DialogState("card_number", <<>>)

====
